---- MODULE Spec2Model ----
(***************************************************************************)
(* A model of the ChartDB backend (src/backend/main.go: the SQLite-backed  *)
(* diagram store with version history) and of the browser-side storage     *)
(* provider (src/src/context/storage-context/storage-provider.tsx: the     *)
(* diagram cache, the owner maps and the per-diagram mutation queue).      *)
(*                                                                         *)
(* JSON values are tagged records: [s |-> "x"] a string, [ts |-> n] the    *)
(* RFC3339 string of instant n, [null |-> TRUE] JSON null, [arr |-> q] an  *)
(* array of entity ids, [num |-> k] the number 2^53 + k.  A JSON object is  *)
(* a function from its keys.                                               *)
(***************************************************************************)
EXTENDS Integers, Sequences, FiniteSets, TLC

\* ------------------------------------------------------------------ bounds
MaxVersions == 2
MaxSeq == 3
MaxClock == 1
MaxInFlight == 1

DocIds == {"d1", "d2"}

VARIABLES
    maxVersionsPerDiagram, \* app.maxVersionsPerDiagram
    store,                 \* the committed SQLite database
    clock,                 \* time.Now()
    inflight,              \* handlers between their first read and their transaction
    resp,                  \* the HTTP response a handler has just written
    cache,                 \* diagramsCacheRef
    owners,                \* tableOwnersRef
    mutationQueue,         \* mutationQueueRef: per id, the call whose tail promise it holds
    calls                  \* the calls made on the storage provider, in submission order

storeVars == <<maxVersionsPerDiagram, store, clock, inflight, resp>>
coordVars == <<cache, owners, mutationQueue, calls>>
vars == <<maxVersionsPerDiagram, store, clock, inflight, resp, cache, owners, mutationQueue, calls>>

\* ------------------------------------------------------------- JSON values
Str(x) == [s |-> x]
Ts(n) == [ts |-> n]
Null == [null |-> TRUE]
Arr(q) == [arr |-> q]
Num(k) == [num |-> k]

\* the float64 nearest to the integer 2^53 + k, as its offset from 2^53: exact
\* up to 2^53, above it the even integers, a tie going to the even mantissa
float64(k) ==
    IF k <= 0 \/ k % 2 = 0 THEN k
    ELSE IF (k \div 2) % 2 = 0 THEN k - 1 ELSE k + 1

\* json.Unmarshal into map[string]interface{}: a number becomes a float64
Unmarshal(data) ==
    [k \in DOMAIN data |->
        IF DOMAIN data[k] = {"num"} THEN Num(float64(data[k].num)) ELSE data[k]]

\* asString: the Go type assertion v.(string); a missing key reads as nil
asString(data, k) ==
    IF k \in DOMAIN data /\ (DOMAIN data[k] = {"s"} \/ DOMAIN data[k] = {"ts"})
    THEN [ok |-> TRUE, v |-> data[k]]
    ELSE [ok |-> FALSE, v |-> Str("")]

\* strings.TrimSpace over the strings of the model: all-space strings and
\* strings without spaces
TrimSpace(v) == IF v \in {Str(""), Str(" ")} THEN Str("") ELSE v

NoRows == "sql: no rows in result set"
UniqueErr == "UNIQUE constraint failed"
IoErr == "disk I/O error"

\* --------------------------------------------------- normalizeDiagramPayload
\* mutant: the name is not validated
nameIsBlankNever(data) == FALSE

\* !ok || strings.TrimSpace(name) == ""
nameIsBlank(data) ==
    ~asString(data, "name").ok \/ TrimSpace(asString(data, "name").v) = Str("")

normalizeDiagramPayload(raw, now) ==
    LET data == Unmarshal(raw)
        id == asString(data, "id")
        name == asString(data, "name")
        databaseType == asString(data, "databaseType")
        created == asString(data, "createdAt")
        updated == asString(data, "updatedAt")
        createdAt == IF ~created.ok \/ created.v = Str("") THEN Ts(now) ELSE created.v
        updatedAt == IF ~updated.ok \/ updated.v = Str("") THEN Ts(now) ELSE updated.v
        edition == asString(data, "databaseEdition")
        out == [k \in DOMAIN data \cup {"createdAt", "updatedAt"} |->
                   IF k = "createdAt" THEN createdAt
                   ELSE IF k = "updatedAt" THEN updatedAt
                   ELSE data[k]]
        fail(msg) == [err |-> msg, payload |-> raw, meta |-> <<>>]
    IN  IF ~id.ok \/ TrimSpace(id.v) = Str("") THEN fail("diagram.id is required")
        ELSE IF nameIsBlank(data) THEN fail("diagram.name is required")
        ELSE IF ~databaseType.ok \/ TrimSpace(databaseType.v) = Str("")
             THEN fail("diagram.databaseType is required")
        ELSE [err |-> "",
              payload |-> out,
              meta |-> [ID |-> id.v.s,
                        Name |-> name.v,
                        DatabaseType |-> databaseType.v,
                        DatabaseEdition |-> IF edition.ok THEN edition.v ELSE Null,
                        CreatedAt |-> createdAt,
                        UpdatedAt |-> updatedAt]]

\* ------------------------------------------------------------ SQL statements
\* A statement maps a database to [err, db]; on an error db is the database
\* the transaction had reached.
Ok(db) == [err |-> "", db |-> db]
Err(msg, db) == [err |-> msg, db |-> db]

\* statement k of a transaction, `next` its result on the database r.db that
\* the transaction has reached: skipped once a statement has failed, and
\* failing itself when the injected storage failure strikes at k
Exec(k, fault, r, next) ==
    IF r.err # "" THEN r
    ELSE IF fault = k THEN Err(IoErr, r.db)
    ELSE next

VersionsOf(db, id) == {v \in db.versions : v.diagram_id = id}

\* mutant: INSERT OR REPLACE
insertDiagramOrReplace(db, payload, meta) ==
    Ok([db EXCEPT !.diagrams =
           [i \in DOMAIN db.diagrams \cup {meta.ID} |->
               IF i = meta.ID
               THEN [id |-> meta.ID, name |-> meta.Name,
                     database_type |-> meta.DatabaseType,
                     database_edition |-> meta.DatabaseEdition,
                     payload |-> payload,
                     created_at |-> meta.CreatedAt,
                     updated_at |-> meta.UpdatedAt]
               ELSE db.diagrams[i]]])

insertDiagram(db, payload, meta) ==
    IF meta.ID \in DOMAIN db.diagrams THEN Err(UniqueErr, db)
    ELSE Ok([db EXCEPT !.diagrams =
                [i \in DOMAIN db.diagrams \cup {meta.ID} |->
                    IF i = meta.ID
                    THEN [id |-> meta.ID, name |-> meta.Name,
                          database_type |-> meta.DatabaseType,
                          database_edition |-> meta.DatabaseEdition,
                          payload |-> payload,
                          created_at |-> meta.CreatedAt,
                          updated_at |-> meta.UpdatedAt]
                    ELSE db.diagrams[i]]])

\* mutant: a key without AUTOINCREMENT, one more than the largest id in the table
insertVersionRowid(db, diagramID, diagramName, payload, action, now) ==
    LET top == IF db.versions = {} THEN 0
               ELSE CHOOSE n \in {v.id : v \in db.versions} :
                        \A v \in db.versions : v.id <= n
    IN  Ok([db EXCEPT !.seq = top + 1,
                      !.versions = db.versions \cup
                          {[id |-> top + 1, diagram_id |-> diagramID, name |-> diagramName,
                            payload |-> payload, action |-> action, created_at |-> Ts(now)]}])

insertVersion(db, diagramID, diagramName, payload, action, now) ==
    Ok([db EXCEPT !.seq = db.seq + 1,
                  !.versions = db.versions \cup
                      {[id |-> db.seq + 1, diagram_id |-> diagramID, name |-> diagramName,
                        payload |-> payload, action |-> action, created_at |-> Ts(now)]}])

\* mutant: the subquery skips one row too many
PruneOffsetOffByOne(keep) == keep + 1

\* the rows the OFFSET subquery of pruneVersions selects
PruneOffset(keep) == keep

\* mutant: the DELETE and its subquery without WHERE diagram_id = ?
pruneVersionsAnyDiagram(db, diagramID, keep) ==
    IF keep <= 0 THEN Ok(db)
    ELSE LET old == {v \in db.versions :
                        Cardinality({w \in db.versions : w.id > v.id}) >= keep}
         IN  Ok([db EXCEPT !.versions = db.versions \ old])

\* mutant: ORDER BY id ASC, the rows beyond the first `keep` are deleted
pruneVersionsNewest(db, diagramID, keep) ==
    IF keep <= 0 THEN Ok(db)
    ELSE LET mine == VersionsOf(db, diagramID)
             new == {v \in mine : Cardinality({w \in mine : w.id < v.id}) >= keep}
         IN  Ok([db EXCEPT !.versions = db.versions \ new])

pruneVersions(db, diagramID, keep) ==
    IF keep <= 0 THEN Ok(db)
    ELSE LET mine == VersionsOf(db, diagramID)
             old == {v \in mine : Cardinality({w \in mine : w.id > v.id}) >= PruneOffset(keep)}
         IN  Ok([db EXCEPT !.versions = db.versions \ old])

\* mutant: the number of affected rows is not looked at
updateDiagramRowUnchecked(db, diagramID, payload, meta) ==
    IF diagramID \notin DOMAIN db.diagrams THEN Ok(db)
    ELSE Ok([db EXCEPT !.diagrams[diagramID] =
                [@ EXCEPT !.name = meta.Name,
                          !.database_type = meta.DatabaseType,
                          !.database_edition = meta.DatabaseEdition,
                          !.payload = payload,
                          !.updated_at = meta.UpdatedAt]])

\* UPDATE diagrams SET name=?, ... WHERE id=?
updateDiagramRow(db, diagramID, payload, meta) ==
    IF diagramID \notin DOMAIN db.diagrams THEN Err(NoRows, db)
    ELSE Ok([db EXCEPT !.diagrams[diagramID] =
                [@ EXCEPT !.name = meta.Name,
                          !.database_type = meta.DatabaseType,
                          !.database_edition = meta.DatabaseEdition,
                          !.payload = payload,
                          !.updated_at = meta.UpdatedAt]])

\* mutant: UPDATE OR REPLACE, the row under the target id gives way
renameDiagramRowOrReplace(db, diagramID, targetID, payload, meta) ==
    IF diagramID \notin DOMAIN db.diagrams THEN Err(NoRows, db)
    ELSE Ok([db EXCEPT !.diagrams =
                [i \in (DOMAIN db.diagrams \ {diagramID}) \cup {targetID} |->
                    IF i = targetID
                    THEN [db.diagrams[diagramID] EXCEPT
                              !.id = targetID,
                              !.name = meta.Name,
                              !.database_type = meta.DatabaseType,
                              !.database_edition = meta.DatabaseEdition,
                              !.payload = payload,
                              !.updated_at = meta.UpdatedAt]
                    ELSE db.diagrams[i]]])

\* UPDATE diagrams SET id=?, name=?, ... WHERE id=?
renameDiagramRow(db, diagramID, targetID, payload, meta) ==
    IF diagramID \notin DOMAIN db.diagrams THEN Err(NoRows, db)
    ELSE IF targetID \in DOMAIN db.diagrams THEN Err(UniqueErr, db)
    ELSE Ok([db EXCEPT !.diagrams =
                [i \in (DOMAIN db.diagrams \ {diagramID}) \cup {targetID} |->
                    IF i = targetID
                    THEN [db.diagrams[diagramID] EXCEPT
                              !.id = targetID,
                              !.name = meta.Name,
                              !.database_type = meta.DatabaseType,
                              !.database_edition = meta.DatabaseEdition,
                              !.payload = payload,
                              !.updated_at = meta.UpdatedAt]
                    ELSE db.diagrams[i]]])

\* mutant: the rename leaves the version rows under the old id
renameVersionsSkipped(db, diagramID, targetID) == Ok(db)

\* mutant: the rename also rewrites the id inside the payload of the versions
renameVersionsWithPayload(db, diagramID, targetID) ==
    Ok([db EXCEPT !.versions =
           {IF v.diagram_id = diagramID
            THEN [v EXCEPT !.diagram_id = targetID, !.payload["id"] = Str(targetID)]
            ELSE v : v \in db.versions}])

\* UPDATE diagram_versions SET diagram_id=? WHERE diagram_id=?
renameVersions(db, diagramID, targetID) ==
    Ok([db EXCEPT !.versions =
           {IF v.diagram_id = diagramID THEN [v EXCEPT !.diagram_id = targetID] ELSE v :
               v \in db.versions}])

\* UPDATE diagram_filters SET diagram_id=? WHERE diagram_id=?
renameFilter(db, diagramID, targetID) ==
    IF diagramID \notin DOMAIN db.filters THEN Ok(db)
    ELSE IF targetID \in DOMAIN db.filters THEN Err(UniqueErr, db)
    ELSE Ok([db EXCEPT !.filters =
                [i \in (DOMAIN db.filters \ {diagramID}) \cup {targetID} |->
                    IF i = targetID THEN db.filters[diagramID] ELSE db.filters[i]]])

deleteFilterRow(db, diagramID) ==
    Ok([db EXCEPT !.filters = [i \in DOMAIN db.filters \ {diagramID} |-> db.filters[i]]])

deleteVersionRows(db, diagramID) ==
    Ok([db EXCEPT !.versions = {v \in db.versions : v.diagram_id # diagramID}])

deleteDiagramRow(db, diagramID) ==
    Ok([db EXCEPT !.diagrams = [i \in DOMAIN db.diagrams \ {diagramID} |-> db.diagrams[i]]])

\* mutant: the writes of a failed transaction stay
rollbackKeepsReached(before, reached) == reached

\* defer rollback(tx): what a transaction that did not commit leaves behind
rollback(before, reached) == before

\* tx.Commit() as statement k; any failure rolls back
Commit(k, fault, before, r) ==
    IF r.err # "" THEN Err(r.err, rollback(before, r.db))
    ELSE IF fault = k THEN Err(IoErr, rollback(before, r.db))
    ELSE r

\* ------------------------------------------------------ store operations
\* Each returns [err, db]: db is the committed database after the call.
\* `fault` names the statement that fails with a storage error (0: none).
insertDiagramWithVersion(db, payload, meta, action, keep, now, fault) ==
    LET r1 == Exec(1, fault, Ok(db), insertDiagram(db, payload, meta))
        r2 == Exec(2, fault, r1, insertVersion(r1.db, meta.ID, meta.Name, payload, action, now))
        r3 == Exec(3, fault, r2, pruneVersions(r2.db, meta.ID, keep))
    IN  Commit(4, fault, db, r3)

replaceDiagramWithVersion(db, diagramID, payload, meta, action, keep, now, fault) ==
    LET r1 == Exec(1, fault, Ok(db), updateDiagramRow(db, diagramID, payload, meta))
        r2 == Exec(2, fault, r1, insertVersion(r1.db, diagramID, meta.Name, payload, action, now))
        r3 == Exec(3, fault, r2, pruneVersions(r2.db, diagramID, keep))
    IN  Commit(4, fault, db, r3)

\* mutant: the length of the patch is not looked at
isOnlyUpdatedAtPatchAnyLen(patch) == "updatedAt" \in DOMAIN patch

isOnlyUpdatedAtPatch(patch) == Cardinality(DOMAIN patch) = 1 /\ "updatedAt" \in DOMAIN patch

\* for k, v := range patch { current[k] = v }; updatedAt defaulted when absent
mergePatch(current, patch, now) ==
    LET merged == patch @@ current
    IN  IF "updatedAt" \in DOMAIN merged THEN merged
        ELSE merged @@ [k \in {"updatedAt"} |-> Ts(now)]

\* whether the patch transaction appends and prunes a version
patchAppendsVersion(patch) == ~isOnlyUpdatedAtPatch(patch)

\* the transaction of patchDiagramWithVersion, after the merge was normalized
patchTx(db, diagramID, patch, payload, meta, keep, now, fault) ==
    LET targetID == IF meta.ID = "" THEN diagramID ELSE meta.ID
        r1 == IF targetID = diagramID
              THEN Exec(1, fault, Ok(db), updateDiagramRow(db, diagramID, payload, meta))
              ELSE Exec(1, fault, Ok(db), renameDiagramRow(db, diagramID, targetID, payload, meta))
        r2 == IF targetID = diagramID THEN r1
              ELSE Exec(2, fault, r1, renameVersions(r1.db, diagramID, targetID))
        r3 == IF targetID = diagramID THEN r2
              ELSE Exec(3, fault, r2, renameFilter(r2.db, diagramID, targetID))
        r4 == IF patchAppendsVersion(patch)
              THEN Exec(4, fault, r3, insertVersion(r3.db, targetID, meta.Name, payload, "patch", now))
              ELSE r3
        r5 == IF patchAppendsVersion(patch)
              THEN Exec(5, fault, r4, pruneVersions(r4.db, targetID, keep))
              ELSE r4
    IN  Commit(6, fault, db, r5)

\* mutant: the filter row is not deleted
deleteDiagramKeepsFilter(db, diagramID, fault) ==
    LET r2 == Exec(2, fault, Ok(db), deleteVersionRows(db, diagramID))
        r3 == Exec(3, fault, r2, deleteDiagramRow(r2.db, diagramID))
    IN  Commit(4, fault, db, r3)

deleteDiagram(db, diagramID, fault) ==
    LET r1 == Exec(1, fault, Ok(db), deleteFilterRow(db, diagramID))
        r2 == Exec(2, fault, r1, deleteVersionRows(r1.db, diagramID))
        r3 == Exec(3, fault, r2, deleteDiagramRow(r2.db, diagramID))
    IN  Commit(4, fault, db, r3)

\* mutant: the id of the version payload is kept
restoredMapKeepsId(normalized, diagramID, now) ==
    [k \in DOMAIN normalized \cup {"updatedAt"} |->
        IF k = "updatedAt" THEN Ts(now) ELSE normalized[k]]

\* restoredMap["id"] = diagramID; restoredMap["updatedAt"] = now
restoredMap(normalized, diagramID, now) ==
    [k \in DOMAIN normalized \cup {"id", "updatedAt"} |->
        IF k = "id" THEN Str(diagramID)
        ELSE IF k = "updatedAt" THEN Ts(now)
        ELSE normalized[k]]

\* restoreVersion from the version payload it read: [err, db, payload]
restoreVersion(db, diagramID, versionPayload, keep, now, fault) ==
    LET n1 == normalizeDiagramPayload(versionPayload, now)
        n2 == normalizeDiagramPayload(restoredMap(n1.payload, diagramID, now), now)
        r1 == Exec(1, fault, Ok(db), updateDiagramRow(db, diagramID, n2.payload, n2.meta))
        r2 == Exec(2, fault, r1, insertVersion(r1.db, diagramID, n2.meta.Name, n2.payload, "restore", now))
        r3 == Exec(3, fault, r2, pruneVersions(r2.db, diagramID, keep))
        r == Commit(4, fault, db, r3)
    IN  IF n1.err # "" THEN [err |-> n1.err, db |-> db, payload |-> versionPayload]
        ELSE IF n2.err # "" THEN [err |-> n2.err, db |-> db, payload |-> versionPayload]
        ELSE [err |-> r.err, db |-> r.db, payload |-> n2.payload]

setDiagramFilter(db, diagramID, payload) ==
    Ok([db EXCEPT !.filters =
           [i \in DOMAIN db.filters \cup {diagramID} |->
               IF i = diagramID THEN payload ELSE db.filters[i]]])

\* ------------------------------------------------------------------ reads
\* [err, payload] as the single SELECT returns it
getDiagramPayload(db, diagramID) ==
    IF diagramID \in DOMAIN db.diagrams
    THEN [err |-> "", payload |-> db.diagrams[diagramID].payload]
    ELSE [err |-> NoRows, payload |-> <<>>]

getDiagramFilter(db, diagramID) ==
    IF diagramID \in DOMAIN db.filters
    THEN [err |-> "", payload |-> db.filters[diagramID]]
    ELSE [err |-> NoRows, payload |-> ""]

\* mutant: WHERE id = ? alone
getVersionPayloadAnyDiagram(db, diagramID, versionID) ==
    IF \E v \in db.versions : v.id = versionID
    THEN [err |-> "", payload |-> (CHOOSE v \in db.versions : v.id = versionID).payload]
    ELSE [err |-> NoRows, payload |-> <<>>]

\* SELECT payload FROM diagram_versions WHERE diagram_id = ? AND id = ?
getVersionPayload(db, diagramID, versionID) ==
    IF \E v \in db.versions : v.diagram_id = diagramID /\ v.id = versionID
    THEN [err |-> "",
          payload |-> (CHOOSE v \in db.versions : v.diagram_id = diagramID /\ v.id = versionID).payload]
    ELSE [err |-> NoRows, payload |-> <<>>]

\* the version ids of listVersions, ORDER BY id DESC
RECURSIVE DescIds(_)
DescIds(S) ==
    IF S = {} THEN <<>>
    ELSE LET m == CHOOSE x \in S : \A y \in S : y <= x
         IN  <<m>> \o DescIds(S \ {m})

listVersions(db, diagramID) ==
    LET ids == DescIds({v.id : v \in VersionsOf(db, diagramID)})
    IN  [i \in 1..Len(ids) |->
            LET v == CHOOSE w \in db.versions : w.id = ids[i]
            IN  [id |-> v.id, diagramId |-> v.diagram_id, name |-> v.name,
                 action |-> v.action, createdAt |-> v.created_at]]

\* ------------------------------------------------------------ request inputs
Base(id, name) == [id |-> Str(id), name |-> Str(name), databaseType |-> Str("generic")]

\* a diagram with keys beyond the required ones: a collection, a createdAt and
\* the number 2^53 + 1
Rich(id) ==
    [id |-> Str(id), name |-> Str("N"), databaseType |-> Str("generic"),
     tables |-> Arr(<<"t">>), createdAt |-> Str("c"), zoom |-> Num(1)]

\* bodies of POST /api/diagrams and PUT /api/diagrams/:id: a valid diagram per
\* id, one of them with further keys, and one whose name is blank
DiagramBodies == {Base("d1", "N"), Rich("d2"), Base("d1", " ")}

\* bodies of PATCH /api/diagrams/:id: empty, updatedAt alone, updatedAt with
\* another key, an id alone (a rename when it differs), a null name, a blank
\* name, a databaseType that is no string, and a null collection
PatchBodies ==
    {<<>>,
     [updatedAt |-> Str("u")],
     [name |-> Str("N2"), updatedAt |-> Str("u")],
     [name |-> Null],
     [name |-> Str(" ")],
     [databaseType |-> Arr(<<>>)],
     [tables |-> Null]}
    \cup {[id |-> Str(d)] : d \in DocIds}

\* bodies of PUT /api/diagrams/:id/filter
FilterBodies == {"f1"}

\* the statement at which an injected storage failure strikes (0: none)
Faults == {0, 2, 4}

\* a response: the handler and the status; for a success also the id addressed,
\* the response body, the patch body and the id the diagram was left under, or
\* the version restored and the payload read from it
Response(op, id, status) ==
    [op |-> op, id |-> id, status |-> status, body |-> <<>>,
     patch |-> <<>>, newId |-> "", version |-> 0, read |-> <<>>]

Failure(op, status) == Response(op, "", status)

NoResp == Response("none", "", 0)

\* the status the handler writes for an error of the store
StatusOf(op, err) ==
    IF err = "" THEN (IF op = "create" THEN 201 ELSE IF op = "delete" THEN 204 ELSE 200)
    ELSE IF err = NoRows /\ op \in {"replace", "patch", "restore"} THEN 404
    ELSE IF err = UniqueErr /\ op \in {"create", "patch"} THEN 409
    ELSE 500

Reply(op, id, err) ==
    IF err = "" THEN Response(op, id, StatusOf(op, err)) ELSE Failure(op, StatusOf(op, err))

\* ------------------------------------------------------------------ handlers
Init ==
    /\ maxVersionsPerDiagram = MaxVersions
    /\ store = [diagrams |-> <<>>, versions |-> {}, filters |-> <<>>, seq |-> 0,
                settings |-> <<>>]
    /\ clock = 0
    /\ inflight = {}
    /\ resp = NoResp
    /\ cache = <<>>
    /\ owners = <<>>
    /\ mutationQueue = <<>>
    /\ calls = <<>>

\* no response is waiting to be delivered: the next handler may run
Idle == resp = NoResp

\* the response reaches the caller
Deliver ==
    /\ resp # NoResp
    /\ resp' = NoResp
    /\ UNCHANGED <<maxVersionsPerDiagram, store, clock, inflight, coordVars>>

Tick ==
    /\ Idle
    /\ clock < MaxClock
    /\ clock' = clock + 1
    /\ UNCHANGED <<maxVersionsPerDiagram, store, inflight, resp, coordVars>>

\* POST /api/diagrams
HandleCreate(body, fault) ==
    LET n == normalizeDiagramPayload(body, clock)
        r == insertDiagramWithVersion(store, n.payload, n.meta, "create",
                                      maxVersionsPerDiagram, clock, fault)
    IN  /\ Idle
        /\ store.seq < MaxSeq
        /\ IF n.err # ""
           THEN /\ resp' = Failure("create", 400)
                /\ UNCHANGED store
           ELSE /\ store' = r.db
                /\ resp' = IF r.err # "" THEN Reply("create", n.meta.ID, r.err)
                           ELSE [Reply("create", n.meta.ID, r.err) EXCEPT !.body = n.payload]
        /\ UNCHANGED <<maxVersionsPerDiagram, clock, inflight, coordVars>>

\* PUT /api/diagrams/:id
HandleReplace(diagramID, body, fault) ==
    LET n == normalizeDiagramPayload(body, clock)
        r == replaceDiagramWithVersion(store, diagramID, n.payload, n.meta, "save",
                                       maxVersionsPerDiagram, clock, fault)
    IN  /\ Idle
        /\ store.seq < MaxSeq
        /\ IF n.err # "" \/ n.meta.ID # diagramID
           THEN /\ resp' = Failure("replace", 400)
                /\ UNCHANGED store
           ELSE /\ store' = r.db
                /\ resp' = IF r.err # "" THEN Reply("replace", diagramID, r.err)
                           ELSE [Reply("replace", diagramID, r.err) EXCEPT !.body = n.payload]
        /\ UNCHANGED <<maxVersionsPerDiagram, clock, inflight, coordVars>>

\* PATCH /api/diagrams/:id up to BeginTx: the read of the current payload, the
\* merge and the normalization
HandlePatchRead(diagramID, patch) ==
    LET cur == getDiagramPayload(store, diagramID)
        n == normalizeDiagramPayload(mergePatch(cur.payload, patch, clock), clock)
    IN  /\ Idle
        /\ Cardinality(inflight) < MaxInFlight
        /\ IF cur.err # ""
           THEN /\ resp' = Failure("patch", StatusOf("patch", cur.err))
                /\ UNCHANGED inflight
           ELSE IF n.err # ""
           THEN /\ resp' = Failure("patch", StatusOf("patch", n.err))
                /\ UNCHANGED inflight
           ELSE /\ inflight' = inflight \cup
                       {[op |-> "patch", id |-> diagramID, patch |-> patch, version |-> 0,
                         payload |-> n.payload]}
                /\ resp' = NoResp
        /\ UNCHANGED <<maxVersionsPerDiagram, store, clock, coordVars>>

\* PATCH /api/diagrams/:id, the transaction and the response
HandlePatchTx(h, fault) ==
    LET meta == normalizeDiagramPayload(h.payload, clock).meta
        r == patchTx(store, h.id, h.patch, h.payload, meta, maxVersionsPerDiagram, clock, fault)
    IN  /\ Idle
        /\ h \in inflight
        /\ h.op = "patch"
        /\ store.seq < MaxSeq
        /\ inflight' = inflight \ {h}
        /\ store' = r.db
        /\ resp' = IF r.err # "" THEN Failure("patch", StatusOf("patch", r.err))
                   ELSE [Response("patch", h.id, 200) EXCEPT
                            !.patch = h.patch, !.body = h.payload,
                            !.newId = IF meta.ID = "" THEN h.id ELSE meta.ID]
        /\ UNCHANGED <<maxVersionsPerDiagram, clock, coordVars>>

\* DELETE /api/diagrams/:id
HandleDelete(diagramID, fault) ==
    LET r == deleteDiagram(store, diagramID, fault)
    IN  /\ Idle
        /\ store' = r.db
        /\ resp' = Reply("delete", diagramID, r.err)
        /\ UNCHANGED <<maxVersionsPerDiagram, clock, inflight, coordVars>>

\* POST /api/diagrams/:id/versions/:versionId/restore, the read of the version
HandleRestoreRead(diagramID, versionID) ==
    LET v == getVersionPayload(store, diagramID, versionID)
    IN  /\ Idle
        /\ Cardinality(inflight) < MaxInFlight
        /\ IF v.err # ""
           THEN /\ resp' = Failure("restore", StatusOf("restore", v.err))
                /\ UNCHANGED inflight
           ELSE /\ inflight' = inflight \cup
                       {[op |-> "restore", id |-> diagramID, patch |-> <<>>,
                         version |-> versionID, payload |-> v.payload]}
                /\ resp' = NoResp
        /\ UNCHANGED <<maxVersionsPerDiagram, store, clock, coordVars>>

\* the restore handler from the normalization to the response
HandleRestoreTx(h, fault) ==
    LET r == restoreVersion(store, h.id, h.payload, maxVersionsPerDiagram, clock, fault)
    IN  /\ Idle
        /\ h \in inflight
        /\ h.op = "restore"
        /\ store.seq < MaxSeq
        /\ inflight' = inflight \ {h}
        /\ store' = r.db
        /\ resp' = IF r.err # "" THEN Failure("restore", StatusOf("restore", r.err))
                   ELSE [Response("restore", h.id, 200) EXCEPT
                            !.version = h.version, !.read = h.payload, !.body = r.payload]
        /\ UNCHANGED <<maxVersionsPerDiagram, clock, coordVars>>

\* PUT /api/diagrams/:id/filter
HandleSetFilter(diagramID, payload) ==
    /\ Idle
    /\ store' = setDiagramFilter(store, diagramID, payload).db
    /\ resp' = Response("setFilter", diagramID, 200)
    /\ UNCHANGED <<maxVersionsPerDiagram, clock, inflight, coordVars>>

\* DELETE /api/diagrams/:id/filter
HandleDeleteFilter(diagramID) ==
    /\ Idle
    /\ store' = deleteFilterRow(store, diagramID).db
    /\ resp' = Response("deleteFilter", diagramID, 204)
    /\ UNCHANGED <<maxVersionsPerDiagram, clock, inflight, coordVars>>

Next ==
    \/ Tick
    \/ Deliver
    \/ \E b \in DiagramBodies, f \in Faults : HandleCreate(b, f)
    \/ \E d \in DocIds, b \in DiagramBodies, f \in Faults : HandleReplace(d, b, f)
    \/ \E d \in DocIds, p \in PatchBodies : HandlePatchRead(d, p)
    \/ \E h \in inflight, f \in Faults : HandlePatchTx(h, f)
    \/ \E d \in DocIds, f \in Faults : HandleDelete(d, f)
    \/ \E d \in DocIds, v \in 1..MaxSeq : HandleRestoreRead(d, v)
    \/ \E h \in inflight, f \in Faults : HandleRestoreTx(h, f)
    \/ \E d \in DocIds, p \in FilterBodies : HandleSetFilter(d, p)
    \/ \E d \in DocIds : HandleDeleteFilter(d)

Spec == Init /\ [][Next]_vars

\* the store under either retention policy: MAX_VERSIONS_PER_DIAGRAM is a cap,
\* or 0 for an unlimited history
LedgerInit ==
    /\ maxVersionsPerDiagram \in {0, MaxVersions}
    /\ store = [diagrams |-> <<>>, versions |-> {}, filters |-> <<>>, seq |-> 0,
                settings |-> <<>>]
    /\ clock = 0
    /\ inflight = {}
    /\ resp = NoResp
    /\ cache = <<>>
    /\ owners = <<>>
    /\ mutationQueue = <<>>
    /\ calls = <<>>

LedgerSpec == LedgerInit /\ [][Next]_vars

\* the store with MAX_VERSIONS_PER_DIAGRAM at its smallest cap, so that the
\* writes of one diagram prune while another diagram has versions
SmallCap == 1

PruneInit ==
    /\ maxVersionsPerDiagram = SmallCap
    /\ store = [diagrams |-> <<>>, versions |-> {}, filters |-> <<>>, seq |-> 0,
                settings |-> <<>>]
    /\ clock = 0
    /\ inflight = {}
    /\ resp = NoResp
    /\ cache = <<>>
    /\ owners = <<>>
    /\ mutationQueue = <<>>
    /\ calls = <<>>

PruneSpec == PruneInit /\ [][Next]_vars

\* ------------------------------------------------------------------ settings
\* The table settings holds the configuration under the key 'config'.
MaxConfigInFlight == 2

\* SELECT value FROM settings WHERE key = 'config', with the default key
getConfig(db) ==
    IF "config" \notin DOMAIN db.settings THEN [defaultDiagramId |-> Str("")]
    ELSE LET config == Unmarshal(db.settings["config"])
         IN  IF "defaultDiagramId" \in DOMAIN config THEN config
             ELSE config @@ [defaultDiagramId |-> Str("")]

\* INSERT INTO settings ... ON CONFLICT(key) DO UPDATE SET value=excluded.value
setConfig(db, config) ==
    Ok([db EXCEPT !.settings =
           [k \in DOMAIN db.settings \cup {"config"} |->
               IF k = "config" THEN config ELSE db.settings[k]]])

\* for k, v := range payload { current[k] = v }
mergeConfig(current, payload) == Unmarshal(payload) @@ current

\* bodies of PUT /api/config
ConfigBodies ==
    {[theme |-> Str("dark")],
     [theme |-> Str("light")],
     [lang |-> Str("en")],
     [defaultDiagramId |-> Str("d1")]}

\* the statement at which an injected storage failure strikes (0: none)
ConfigFaults == {0, 1}

\* GET /api/config
HandleGetConfig ==
    /\ Idle
    /\ resp' = [Response("getConfig", "", 200) EXCEPT !.body = getConfig(store)]
    /\ UNCHANGED <<maxVersionsPerDiagram, store, clock, inflight, coordVars>>

\* PUT /api/config up to setConfig: the read of the current configuration and
\* the merge of the body over it
HandleSetConfigRead(payload) ==
    /\ Idle
    /\ Cardinality(inflight) < MaxConfigInFlight
    /\ inflight' = inflight \cup
           {[op |-> "config", id |-> "", patch |-> payload, version |-> 0,
             payload |-> mergeConfig(getConfig(store), payload)]}
    /\ UNCHANGED <<maxVersionsPerDiagram, store, clock, resp, coordVars>>

\* PUT /api/config, the write of the merged configuration and the response
HandleSetConfigWrite(h, fault) ==
    LET r == Exec(1, fault, Ok(store), setConfig(store, h.payload))
    IN  /\ Idle
        /\ h \in inflight
        /\ h.op = "config"
        /\ inflight' = inflight \ {h}
        /\ store' = r.db
        /\ resp' = IF r.err # "" THEN Failure("setConfig", 500)
                   ELSE [Response("setConfig", "", 200) EXCEPT
                            !.patch = h.patch, !.body = h.payload]
        /\ UNCHANGED <<maxVersionsPerDiagram, clock, coordVars>>

ConfigNext ==
    \/ Deliver
    \/ HandleGetConfig
    \/ \E p \in ConfigBodies : HandleSetConfigRead(p)
    \/ \E h \in inflight, f \in ConfigFaults : HandleSetConfigWrite(h, f)

ConfigSpec == Init /\ [][ConfigNext]_vars

\* ======================================================= storage provider
\* The client side (storage-provider.tsx).  A Diagram is a record with the
\* fields toDiagram sets; of its six entity collections, which the provider
\* handles alike, the model carries tables.  A Date is the instant it holds.
MaxCalls == 4
MaxPending == 2

Undefined == [undefined |-> TRUE]

\* raw[k]: undefined when the key is absent
Field(raw, k) == IF k \in DOMAIN raw THEN raw[k] ELSE Undefined

\* toDate: the instant of a string that parses, otherwise new Date()
toDate(v, now) == IF DOMAIN v = {"ts"} THEN v.ts ELSE now

\* String(v ?? fallback); the text of a value that is no string stands for
\* itself
stringOr(v, fallback) ==
    IF DOMAIN v = {"s"} THEN v.s
    ELSE IF v = Undefined \/ v = Null THEN fallback
    ELSE "[object]"

toDiagram(raw, now) ==
    [id |-> stringOr(Field(raw, "id"), ""),
     name |-> stringOr(Field(raw, "name"), ""),
     databaseType |-> stringOr(Field(raw, "databaseType"), "generic"),
     databaseEdition |-> IF DOMAIN Field(raw, "databaseEdition") = {"s"}
                         THEN Field(raw, "databaseEdition") ELSE Undefined,
     tables |-> IF DOMAIN Field(raw, "tables") = {"arr"}
                THEN Field(raw, "tables") ELSE Undefined,
     createdAt |-> toDate(Field(raw, "createdAt"), now),
     updatedAt |-> toDate(Field(raw, "updatedAt"), now)]

\* JSON.stringify(serializeDiagram(diagram)): undefined members are left out
serializeDiagram(diagram) ==
    LET all == [id |-> Str(diagram.id),
                name |-> Str(diagram.name),
                databaseType |-> Str(diagram.databaseType),
                databaseEdition |-> diagram.databaseEdition,
                tables |-> diagram.tables,
                createdAt |-> Ts(diagram.createdAt),
                updatedAt |-> Ts(diagram.updatedAt)]
    IN  [k \in {j \in DOMAIN all : all[j] # Undefined} |-> all[k]]

cloneDiagram(diagram, now) == toDiagram(serializeDiagram(diagram), now)

\* the mutator of addTable: diagram.tables = [...(diagram.tables ?? []), table]
addTable(diagram, table) ==
    [diagram EXCEPT !.tables =
        Arr((IF @ = Undefined THEN <<>> ELSE @.arr) \o <<table>>)]

TableIds(diagram) ==
    IF diagram.tables = Undefined THEN {}
    ELSE {diagram.tables.arr[i] : i \in DOMAIN diagram.tables.arr}

\* mutant: the entries of the diagram are left in the owner map
clearOwnersForDiagramNot(own, diagram) == own

clearOwnersForDiagram(own, diagram) ==
    [t \in DOMAIN own \ TableIds(diagram) |-> own[t]]

indexDiagramOwners(own, diagram) ==
    [t \in DOMAIN own \cup TableIds(diagram) |->
        IF t \in TableIds(diagram) THEN diagram.id ELSE own[t]]

\* the refs of the provider as one record r = [cache, owners, queue]
setCachedDiagram(r, diagram) ==
    LET cleared == IF diagram.id \in DOMAIN r.cache
                   THEN clearOwnersForDiagram(r.owners, r.cache[diagram.id])
                   ELSE r.owners
    IN  [r EXCEPT !.cache = [i \in DOMAIN r.cache \cup {diagram.id} |->
                                IF i = diagram.id THEN diagram ELSE r.cache[i]],
                  !.owners = indexDiagramOwners(cleared, diagram)]

removeCachedDiagram(r, diagramId) ==
    [cache |-> [i \in DOMAIN r.cache \ {diagramId} |-> r.cache[i]],
     owners |-> IF diagramId \in DOMAIN r.cache
                THEN clearOwnersForDiagram(r.owners, r.cache[diagramId])
                ELSE r.owners,
     queue |-> [i \in DOMAIN r.queue \ {diagramId} |-> r.queue[i]]]

\* listDiagrams with include options, from the first diagram of the list on
RECURSIVE cacheFull(_, _, _)
cacheFull(r, raw, now) ==
    IF raw = <<>> THEN r
    ELSE cacheFull(setCachedDiagram(r, toDiagram(Head(raw), now)), Tail(raw), now)

\* listDiagrams without include options: a cached diagram keeps its
\* collections and takes the listed fields, an uncached one is cached as listed
cacheSummary(r, diagram) ==
    IF diagram.id \in DOMAIN r.cache
    THEN setCachedDiagram(r, [r.cache[diagram.id] EXCEPT
                                 !.id = diagram.id,
                                 !.name = diagram.name,
                                 !.databaseType = diagram.databaseType,
                                 !.databaseEdition = diagram.databaseEdition,
                                 !.createdAt = diagram.createdAt,
                                 !.updatedAt = diagram.updatedAt])
    ELSE setCachedDiagram(r, diagram)

RECURSIVE cacheSummaries(_, _, _)
cacheSummaries(r, raw, now) ==
    IF raw = <<>> THEN r
    ELSE cacheSummaries(cacheSummary(r, toDiagram(Head(raw), now)), Tail(raw), now)

\* ------------------------------------------------- the routes the provider calls
\* Each returns [status, body, db].
\* the place of an updated_at text in ORDER BY updated_at: timestamps by their
\* instant, before any text that starts with a letter
Rank(v) == IF DOMAIN v = {"ts"} THEN v.ts ELSE MaxClock + 1

\* the orders in which SELECT ... ORDER BY updated_at DESC may return the rows
ListOrders(db) ==
    LET ids == DOMAIN db.diagrams
    IN  {q \in [1..Cardinality(ids) -> ids] :
            /\ \A i, j \in DOMAIN q : i # j => q[i] # q[j]
            /\ \A i, j \in DOMAIN q :
                   i < j => Rank(db.diagrams[q[i]].updated_at) >= Rank(db.diagrams[q[j]].updated_at)}

\* one element of GET /api/diagrams: the diagramMeta of a row as JSON
metaJSON(row) ==
    LET all == [id |-> Str(row.id), name |-> row.name,
                databaseType |-> row.database_type,
                databaseEdition |-> row.database_edition,
                createdAt |-> row.created_at, updatedAt |-> row.updated_at]
    IN  [k \in {j \in DOMAIN all : j # "databaseEdition" \/ all[j] # Null} |-> all[k]]

listDiagramMetas(db, order) == [i \in DOMAIN order |-> metaJSON(db.diagrams[order[i]])]

listDiagramPayloads(db, order) == [i \in DOMAIN order |-> db.diagrams[order[i]].payload]

Result(status, body, db) == [status |-> status, body |-> body, db |-> db]

\* GET /api/diagrams/:id
routeGet(db, diagramID) ==
    LET r == getDiagramPayload(db, diagramID)
    IN  IF r.err = "" THEN Result(200, r.payload, db) ELSE Result(404, <<>>, db)

\* POST /api/diagrams
routePost(db, body, keep, now, fault) ==
    LET n == normalizeDiagramPayload(body, now)
        r == insertDiagramWithVersion(db, n.payload, n.meta, "create", keep, now, fault)
    IN  IF n.err # "" THEN Result(400, <<>>, db)
        ELSE IF r.err # "" THEN Result(StatusOf("create", r.err), <<>>, r.db)
        ELSE Result(201, n.payload, r.db)

\* PUT /api/diagrams/:id
routePut(db, diagramID, body, keep, now, fault) ==
    LET n == normalizeDiagramPayload(body, now)
        r == replaceDiagramWithVersion(db, diagramID, n.payload, n.meta, "save", keep, now, fault)
    IN  IF n.err # "" THEN Result(400, <<>>, db)
        ELSE IF n.meta.ID # diagramID THEN Result(400, <<>>, db)
        ELSE IF r.err # "" THEN Result(StatusOf("replace", r.err), <<>>, r.db)
        ELSE Result(200, n.payload, r.db)

\* DELETE /api/diagrams/:id
routeDelete(db, diagramID, fault) ==
    LET r == deleteDiagram(db, diagramID, fault)
    IN  Result(StatusOf("delete", r.err), <<>>, r.db)

\* PATCH /api/diagrams/:id up to BeginTx: [status, payload]; status 0 when the
\* handler goes on to the transaction with the merged payload
routePatchRead(db, diagramID, patch, now) ==
    LET cur == getDiagramPayload(db, diagramID)
        n == normalizeDiagramPayload(mergePatch(cur.payload, patch, now), now)
    IN  IF cur.err # "" THEN [status |-> StatusOf("patch", cur.err), payload |-> <<>>]
        ELSE IF n.err # "" THEN [status |-> StatusOf("patch", n.err), payload |-> <<>>]
        ELSE [status |-> 0, payload |-> n.payload]

\* PATCH /api/diagrams/:id, the transaction and the response
routePatchTx(db, diagramID, patch, payload, keep, now, fault) ==
    LET meta == normalizeDiagramPayload(payload, now).meta
        r == patchTx(db, diagramID, patch, payload, meta, keep, now, fault)
    IN  IF r.err # "" THEN Result(StatusOf("patch", r.err), <<>>, r.db)
        ELSE Result(200, payload, r.db)

\* ------------------------------------------------------ calls on the provider
\* A call is the promise a method of the provider returned.  kind names the
\* method, prev the call whose tail promise enqueueMutation chained it to (0
\* for Promise.resolve() and for the methods that do not queue), pc where it
\* stands: waiting for prev, its GET in flight (fetching) or answered
\* (fetched), its request in flight (sending), between the read and the
\* transaction of the PATCH handler (patching), answered (replied), or
\* settled (ok, failed).  msg is the message in flight; handed is the diagram
\* a mutator was given, saved the diagram saveDiagram cached, during the
\* mutations of the same id that were pending when the call was made.
Call(kind, id, arg) ==
    [kind |-> kind, id |-> id, arg |-> arg, prev |-> 0, pc |-> "waiting",
     msg |-> <<>>, handed |-> <<>>, saved |-> <<>>, during |-> {}]

Settled == {"ok", "failed"}

Pending(cs) == {i \in DOMAIN cs : cs[i].pc \notin Settled}

Refs == [cache |-> cache, owners |-> owners, queue |-> mutationQueue]

\* mutant: a rejected predecessor rejects the operation chained to it
startsAfterSuccessOnly(outcome) == outcome = "ok"

\* previous.catch(() => undefined).then(operation) on the tail
\* next.then(() => undefined, () => undefined): whether the operation runs
\* once its predecessor has settled with outcome
startsAfter(outcome) == TRUE

\* the operation of a queued call starts: fetchDiagram, the mutator and
\* saveDiagram up to its request for mutateDiagram, the request for
\* updateDiagram and deleteDiagram
Started(c, cach, now) ==
    IF c.kind = "mutate"
    THEN IF c.id \in DOMAIN cach
         THEN LET diagram == cloneDiagram(cach[c.id], now)
              IN  [c EXCEPT !.pc = "sending",
                            !.handed = diagram,
                            !.msg = serializeDiagram(addTable(diagram, c.arg.table))]
         ELSE [c EXCEPT !.pc = "fetching"]
    ELSE [c EXCEPT !.pc = "sending", !.msg = c.arg]

\* what enqueueMutation makes of a call whose predecessor has settled
Chained(c, outcome, cach, now) ==
    IF startsAfter(outcome) THEN Started(c, cach, now) ELSE [c EXCEPT !.pc = "failed"]

\* mutant: the reaction chained to the settled promise is never run
SettleAlone(cs, k, outcome, cach, now) ==
    [cs EXCEPT ![k] = [@ EXCEPT !.pc = outcome, !.msg = <<>>]]

\* call k settles, and the operation chained to it is taken up: the promise
\* reactions run to the operation's first await before any other response
\* is taken
Settle(cs, k, outcome, cach, now) ==
    [i \in DOMAIN cs |->
        IF i = k THEN [cs[k] EXCEPT !.pc = outcome, !.msg = <<>>]
        ELSE IF cs[i].prev = k /\ cs[i].pc = "waiting" THEN Chained(cs[i], outcome, cach, now)
        ELSE cs[i]]

MayCall ==
    /\ Len(calls) < MaxCalls
    /\ Cardinality(Pending(calls)) < MaxPending

enqueueMutation(c) ==
    LET previous == IF c.id \in DOMAIN mutationQueue THEN mutationQueue[c.id] ELSE 0
        queued == [c EXCEPT !.prev = previous]
        entered == IF previous = 0 THEN Started(queued, cache, clock)
                   ELSE IF calls[previous].pc \notin Settled THEN queued
                   ELSE Chained(queued, calls[previous].pc, cache, clock)
    IN  /\ MayCall
        /\ calls' = Append(calls, entered)
        /\ mutationQueue' = [i \in DOMAIN mutationQueue \cup {c.id} |->
                                IF i = c.id THEN Len(calls) + 1 ELSE mutationQueue[i]]
        /\ UNCHANGED <<cache, owners, storeVars>>

\* a method that does not queue sends its request at once
Request(c) ==
    /\ MayCall
    /\ calls' = Append(calls, c)
    /\ UNCHANGED <<cache, owners, mutationQueue, storeVars>>

\* addTable({diagramId, table}) = mutateDiagram(diagramId, mutator); the table
\* has a fresh id, the number of the call
MutateDiagram(id) ==
    enqueueMutation([Call("mutate", id, [table |-> Len(calls) + 1]) EXCEPT
                        !.during = {i \in Pending(calls) :
                                       calls[i].kind = "mutate" /\ calls[i].id = id}])

\* updateDiagram({id, attributes}), attributes as serializeAttributes sends them
UpdateDiagram(id, attributes) == enqueueMutation(Call("update", id, attributes))

DeleteDiagram(id) == enqueueMutation(Call("delete", id, <<>>))

AddDiagram(diagram) ==
    Request([Call("add", diagram.id, <<>>) EXCEPT
                !.pc = "sending", !.msg = serializeDiagram(diagram)])

\* getDiagram(id, options) = fetchDiagram(id): answered from the cache, or a GET
GetDiagram(id) ==
    Request(IF id \in DOMAIN cache
            THEN [Call("get", id, <<>>) EXCEPT
                     !.pc = "ok", !.handed = cloneDiagram(cache[id], clock)]
            ELSE [Call("get", id, <<>>) EXCEPT !.pc = "fetching"])

\* listDiagrams(options): full when hasIncludeOptions(options)
ListDiagrams(full) ==
    Request([Call(IF full THEN "listFull" ELSE "list", "", <<>>) EXCEPT !.pc = "sending"])

\* resolveDiagramIdByEntity(entityId, tableOwnersRef, 'tables'), the first
\* step of updateTable: the owner map, then the cached diagrams in some order
\* (with the entry set on a hit), then the request for the full list.  The id
\* of the call is the diagram id it resolved, "" until then.
ResolveDiagramIdByEntity(entityId) ==
    LET hits == {d \in DOMAIN cache : entityId \in TableIds(cache[d])}
        resolve == Call("resolve", "", [entity |-> entityId])
    IN  /\ MayCall
        /\ IF entityId \in DOMAIN owners
           THEN /\ calls' = Append(calls, [resolve EXCEPT !.pc = "ok", !.id = owners[entityId]])
                /\ UNCHANGED owners
           ELSE IF hits # {}
           THEN \E d \in hits :
                    /\ calls' = Append(calls, [resolve EXCEPT !.pc = "ok", !.id = d])
                    /\ owners' = [t \in DOMAIN owners \cup {entityId} |->
                                      IF t = entityId THEN d ELSE owners[t]]
           ELSE /\ calls' = Append(calls, [resolve EXCEPT !.pc = "sending"])
                /\ UNCHANGED owners
        /\ UNCHANGED <<cache, mutationQueue, storeVars>>

\* ------------------------------------------------------------- the server
Answer(k, pc, status, body) ==
    calls' = [calls EXCEPT ![k] = [@ EXCEPT !.pc = pc, !.msg = [status |-> status, body |-> body]]]

ServeGet(k) ==
    LET r == routeGet(store, calls[k].id)
    IN  /\ calls[k].pc = "fetching"
        /\ Answer(k, "fetched", r.status, r.body)
        /\ UNCHANGED <<cache, owners, mutationQueue, storeVars>>

\* a request that writes: the route decides by the method the call sends
ServeWrite(k, r) ==
    /\ store' = r.db
    /\ Answer(k, "replied", r.status, r.body)
    /\ UNCHANGED <<cache, owners, mutationQueue, maxVersionsPerDiagram, clock, inflight, resp>>

ServePut(k, fault) ==
    /\ calls[k].pc = "sending" /\ calls[k].kind = "mutate"
    /\ ServeWrite(k, routePut(store, calls[k].id, calls[k].msg,
                              maxVersionsPerDiagram, clock, fault))

ServePost(k, fault) ==
    /\ calls[k].pc = "sending" /\ calls[k].kind = "add"
    /\ ServeWrite(k, routePost(store, calls[k].msg, maxVersionsPerDiagram, clock, fault))

ServeDelete(k, fault) ==
    /\ calls[k].pc = "sending" /\ calls[k].kind = "delete"
    /\ ServeWrite(k, routeDelete(store, calls[k].id, fault))

ServePatchRead(k) ==
    LET r == routePatchRead(store, calls[k].id, calls[k].msg, clock)
    IN  /\ calls[k].pc = "sending" /\ calls[k].kind = "update"
        /\ IF r.status # 0
           THEN Answer(k, "replied", r.status, <<>>)
           ELSE calls' = [calls EXCEPT ![k] = [@ EXCEPT !.pc = "patching", !.msg = r.payload]]
        /\ UNCHANGED <<cache, owners, mutationQueue, storeVars>>

ServePatchTx(k, fault) ==
    /\ calls[k].pc = "patching"
    /\ ServeWrite(k, routePatchTx(store, calls[k].id, calls[k].arg, calls[k].msg,
                                  maxVersionsPerDiagram, clock, fault))

ServeList(k, order) ==
    /\ calls[k].pc = "sending" /\ calls[k].kind \in {"list", "listFull", "resolve"}
    /\ Answer(k, "replied", 200,
              IF calls[k].kind \in {"listFull", "resolve"} THEN listDiagramPayloads(store, order)
              ELSE listDiagramMetas(store, order))
    /\ UNCHANGED <<cache, owners, mutationQueue, storeVars>>

\* -------------------------------------------- the provider takes a response
\* request(): any status that is not ok throws
Threw(k) == calls[k].msg.status \notin {200, 201, 204}

\* the refs become r and call k settles
Finish(k, r, outcome, note) ==
    /\ cache' = r.cache
    /\ owners' = r.owners
    /\ mutationQueue' = r.queue
    /\ calls' = Settle([calls EXCEPT ![k] = note], k, outcome, r.cache, clock)
    /\ UNCHANGED storeVars

Fail(k) == Finish(k, Refs, "failed", calls[k])

\* mutant: fetchDiagram returns the cached object itself, so the mutator's
\* edit is an edit of the cache entry
editedInPlaceShared(r, edited) ==
    [r EXCEPT !.cache = [i \in DOMAIN @ |-> IF i = edited.id THEN edited ELSE @[i]]]

\* the refs once the mutator has edited, in place, the diagram fetchDiagram
\* returned: that diagram is cloneDiagram(...), an object of its own, and the
\* cached one is not touched
editedInPlace(r, edited) == r

\* fetchDiagram after its GET: of getDiagram, or of mutateDiagram, which goes
\* on to the mutator and to the PUT of saveDiagram
ReceiveFetched(k) ==
    LET diagram == toDiagram(calls[k].msg.body, clock)
        copy == cloneDiagram(diagram, clock)
        r == IF Threw(k) \/ calls[k].kind = "get" THEN setCachedDiagram(Refs, diagram)
             ELSE editedInPlace(setCachedDiagram(Refs, diagram),
                                addTable(copy, calls[k].arg.table))
    IN  /\ calls[k].pc = "fetched"
        /\ IF Threw(k) THEN Fail(k)
           ELSE IF calls[k].kind = "get"
           THEN Finish(k, r, "ok", [calls[k] EXCEPT !.handed = copy])
           ELSE /\ cache' = r.cache
                /\ owners' = r.owners
                /\ calls' = [calls EXCEPT ![k] =
                                [@ EXCEPT !.pc = "sending",
                                          !.handed = copy,
                                          !.msg = serializeDiagram(addTable(copy, calls[k].arg.table))]]
                /\ UNCHANGED <<mutationQueue, storeVars>>

\* saveDiagram after its PUT
ReceiveSaved(k) ==
    LET saved == toDiagram(calls[k].msg.body, clock)
    IN  /\ calls[k].pc = "replied" /\ calls[k].kind = "mutate"
        /\ IF Threw(k) THEN Fail(k)
           ELSE Finish(k, setCachedDiagram(Refs, saved), "ok", [calls[k] EXCEPT !.saved = saved])

\* updateDiagram after its PATCH
ReceiveUpdated(k) ==
    LET updated == toDiagram(calls[k].msg.body, clock)
        r == IF updated.id # calls[k].id THEN removeCachedDiagram(Refs, calls[k].id) ELSE Refs
    IN  /\ calls[k].pc = "replied" /\ calls[k].kind = "update"
        /\ IF Threw(k) THEN Fail(k)
           ELSE Finish(k, setCachedDiagram(r, updated), "ok", calls[k])

\* deleteDiagram after its DELETE
ReceiveDeleted(k) ==
    /\ calls[k].pc = "replied" /\ calls[k].kind = "delete"
    /\ IF Threw(k) THEN Fail(k)
       ELSE Finish(k, removeCachedDiagram(Refs, calls[k].id), "ok", calls[k])

\* addDiagram after its POST
ReceiveAdded(k) ==
    /\ calls[k].pc = "replied" /\ calls[k].kind = "add"
    /\ IF Threw(k) THEN Fail(k)
       ELSE Finish(k, setCachedDiagram(Refs, toDiagram(calls[k].msg.body, clock)), "ok", calls[k])

\* listDiagrams after its GET
ReceiveListed(k) ==
    /\ calls[k].pc = "replied" /\ calls[k].kind \in {"list", "listFull"}
    /\ IF Threw(k) THEN Fail(k)
       ELSE Finish(k,
                   IF calls[k].kind = "listFull"
                   THEN cacheFull(Refs, calls[k].msg.body, clock)
                   ELSE cacheSummaries(Refs, calls[k].msg.body, clock),
                   "ok", calls[k])

\* resolveDiagramIdByEntity over the full list, from its first diagram on:
\* each diagram is cached, the first with the entity ends the loop
RECURSIVE resolveInList(_, _, _, _)
resolveInList(r, raw, entityId, now) ==
    IF raw = <<>> THEN [refs |-> r, found |-> FALSE, id |-> ""]
    ELSE LET diagram == toDiagram(Head(raw), now)
             c == setCachedDiagram(r, diagram)
         IN  IF entityId \in TableIds(diagram)
             THEN [refs |-> [c EXCEPT !.owners = [t \in DOMAIN @ \cup {entityId} |->
                                                     IF t = entityId THEN diagram.id ELSE @[t]]],
                   found |-> TRUE, id |-> diagram.id]
             ELSE resolveInList(c, Tail(raw), entityId, now)

\* resolveDiagramIdByEntity after its GET of the full list; it throws
\* "Entity ... was not found" when no listed diagram has the entity
ReceiveResolved(k) ==
    LET res == resolveInList(Refs, calls[k].msg.body, calls[k].arg.entity, clock)
    IN  /\ calls[k].pc = "replied" /\ calls[k].kind = "resolve"
        /\ IF Threw(k) THEN Fail(k)
           ELSE IF res.found THEN Finish(k, res.refs, "ok", [calls[k] EXCEPT !.id = res.id])
           ELSE Finish(k, res.refs, "failed", calls[k])

\* the entity ids updateTable is called with: the table of the stored diagram
ResolveIds == {0}

\* the diagram a caller passes to addDiagram
NewDiagram(id) ==
    [id |-> id, name |-> "N", databaseType |-> "generic", databaseEdition |-> Undefined,
     tables |-> Undefined, createdAt |-> 0, updatedAt |-> 0]

\* the attributes of updateDiagram: the id d2, a rename for every other diagram
AttributeBodies == {[id |-> Str("d2")]}

\* the storage failure of a PUT: none, or at the commit
CoordFaults == {0, 4}

\* the diagram d1 as it was stored before the provider was mounted: with the
\* table 0
StoredDiagram == Base("d1", "N") @@ [tables |-> Arr(<<0>>)]

\* the provider is mounted on a store that holds the diagram d1
CoordInit ==
    /\ maxVersionsPerDiagram = MaxVersions
    /\ store = routePost([diagrams |-> <<>>, versions |-> {}, filters |-> <<>>, seq |-> 0,
                           settings |-> <<>>],
                         StoredDiagram, MaxVersions, 0, 0).db
    /\ clock = 0
    /\ inflight = {}
    /\ resp = NoResp
    /\ cache = <<>>
    /\ owners = <<>>
    /\ mutationQueue = <<>>
    /\ calls = <<>>

CoordNext ==
    \/ \E d \in DocIds : MutateDiagram(d)
    \/ \E d \in DocIds, a \in AttributeBodies : UpdateDiagram(d, a)
    \/ \E d \in DocIds : DeleteDiagram(d)
    \/ \E d \in DocIds : AddDiagram(NewDiagram(d))
    \/ \E d \in DocIds : GetDiagram(d)
    \/ \E full \in BOOLEAN : ListDiagrams(full)
    \/ \E t \in ResolveIds : ResolveDiagramIdByEntity(t)
    \/ \E k \in DOMAIN calls : ServeGet(k)
    \/ \E k \in DOMAIN calls, f \in CoordFaults : ServePut(k, f)
    \/ \E k \in DOMAIN calls : ServePost(k, 0)
    \/ \E k \in DOMAIN calls : ServeDelete(k, 0)
    \/ \E k \in DOMAIN calls : ServePatchRead(k)
    \/ \E k \in DOMAIN calls : ServePatchTx(k, 0)
    \/ \E k \in DOMAIN calls, q \in ListOrders(store) : ServeList(k, q)
    \/ \E k \in DOMAIN calls : ReceiveFetched(k)
    \/ \E k \in DOMAIN calls : ReceiveSaved(k)
    \/ \E k \in DOMAIN calls : ReceiveUpdated(k)
    \/ \E k \in DOMAIN calls : ReceiveDeleted(k)
    \/ \E k \in DOMAIN calls : ReceiveAdded(k)
    \/ \E k \in DOMAIN calls : ReceiveListed(k)
    \/ \E k \in DOMAIN calls : ReceiveResolved(k)

CoordSpec == CoordInit /\ [][CoordNext]_vars

\* ------------------------------------------- two providers on one store
\* A second StorageProvider (another tab) on the same server.  Of its calls
\* only addTable is followed, and only where its cache entry is the stored
\* diagram and nothing comes between its steps: the stored diagram is PUT
\* back with one more table.  Its tables have the ids after the call numbers
\* of the first provider; it writes while the version ids are below MaxSeq.
PeerAddTable(id) ==
    LET diagram == toDiagram(store.diagrams[id].payload, clock)
        table == MaxCalls + 1
        r == routePut(store, id, serializeDiagram(addTable(diagram, table)),
                      maxVersionsPerDiagram, clock, 0)
    IN  /\ id \in DOMAIN store.diagrams
        /\ table \notin TableIds(diagram)
        /\ store.seq < MaxSeq
        /\ store' = r.db
        /\ UNCHANGED <<maxVersionsPerDiagram, clock, inflight, resp, coordVars>>

\* the first provider reads and adds tables while the second one writes
SharedNext ==
    \/ \E d \in DocIds : MutateDiagram(d)
    \/ \E d \in DocIds : GetDiagram(d)
    \/ \E d \in DocIds : PeerAddTable(d)
    \/ \E k \in DOMAIN calls : ServeGet(k)
    \/ \E k \in DOMAIN calls, f \in CoordFaults : ServePut(k, f)
    \/ \E k \in DOMAIN calls : ReceiveFetched(k)
    \/ \E k \in DOMAIN calls : ReceiveSaved(k)

SharedSpec == CoordInit /\ [][SharedNext]_vars

\* ------------------------------------------------------ progress of the queue
\* The queued methods alone, with the fairness the claim of progress assumes
\* for one id: the server answers every request made for that id, and the
\* provider takes every response that has arrived (the event loop runs the
\* continuation of a settled fetch).  Requests for other ids may stay
\* unanswered for ever.
QueueNext ==
    \/ \E d \in DocIds : MutateDiagram(d)
    \/ \E d \in DocIds, a \in AttributeBodies : UpdateDiagram(d, a)
    \/ \E d \in DocIds : DeleteDiagram(d)
    \/ \E k \in DOMAIN calls : ServeGet(k)
    \/ \E k \in DOMAIN calls, f \in CoordFaults : ServePut(k, f)
    \/ \E k \in DOMAIN calls : ServeDelete(k, 0)
    \/ \E k \in DOMAIN calls : ServePatchRead(k)
    \/ \E k \in DOMAIN calls : ServePatchTx(k, 0)
    \/ \E k \in DOMAIN calls : ReceiveFetched(k)
    \/ \E k \in DOMAIN calls : ReceiveSaved(k)
    \/ \E k \in DOMAIN calls : ReceiveUpdated(k)
    \/ \E k \in DOMAIN calls : ReceiveDeleted(k)

\* the server answers a request of a call for the id
Serves(id) ==
    \E k \in DOMAIN calls :
        /\ calls[k].id = id
        /\ \/ ServeGet(k)
           \/ \E f \in CoordFaults : ServePut(k, f)
           \/ ServeDelete(k, 0)
           \/ ServePatchRead(k)
           \/ ServePatchTx(k, 0)

\* the provider takes a response
Takes ==
    \E k \in DOMAIN calls :
        \/ ReceiveFetched(k)
        \/ ReceiveSaved(k)
        \/ ReceiveUpdated(k)
        \/ ReceiveDeleted(k)

\* the id whose requests are answered
Answered == "d1"

\* ENABLED <<Serves(id)>>_vars: a request for the id is at the server
CanServe(id) ==
    \E k \in DOMAIN calls :
        /\ calls[k].id = id
        /\ \/ calls[k].pc \in {"fetching", "patching"}
           \/ calls[k].pc = "sending" /\ calls[k].kind \in {"mutate", "update", "delete"}

\* ENABLED <<Takes>>_vars: a response has arrived
CanTake == \E k \in DOMAIN calls : calls[k].pc \in {"fetched", "replied"}

\* WF_vars(Serves(Answered)), with its enabling condition written out
FairServes == []<>(~CanServe(Answered)) \/ []<><<Serves(Answered)>>_vars

\* WF_vars(Takes), with its enabling condition written out
FairTakes == []<>(~CanTake) \/ []<><<Takes>>_vars

QueueSpec ==
    /\ CoordInit
    /\ [][QueueNext]_vars
    /\ WF_vars(\E k \in DOMAIN calls : calls[k].id = Answered /\ ServeGet(k))
    /\ FairServes
    /\ FairTakes

\* ================================================================== claims
\* a handler has just written the response r'
Responded == resp = NoResp /\ resp' # NoResp

NewestOf(db, id) ==
    CHOOSE v \in VersionsOf(db, id) : \A w \in VersionsOf(db, id) : w.id <= v.id

\* C3: with maxVersions = N > 0, every document has at most N retained
\* versions in every committed state, whatever sequence of create, replace,
\* patch (renames included), restore and delete led to it.
RetentionCap ==
    maxVersionsPerDiagram > 0 =>
        \A v \in store.versions :
            Cardinality(VersionsOf(store, v.diagram_id)) <= maxVersionsPerDiagram

\* a rename patch has just pruned: the diagram holds N versions, none of them
\* its create version, and more than N were appended
RetentionCapWitness ==
    /\ resp.op = "patch" /\ resp.status = 200 /\ resp.newId # resp.id
    /\ maxVersionsPerDiagram > 0
    /\ Cardinality(VersionsOf(store, resp.newId)) = maxVersionsPerDiagram
    /\ store.seq > maxVersionsPerDiagram
    /\ \A v \in VersionsOf(store, resp.newId) : v.action = "patch"

\* C4: a create, replace, patch, restore or delete that fails (400, 404, 409
\* or 500) leaves the documents, versions and filters exactly as they were.
RollbackOnFailure ==
    [][(Responded /\ resp'.status >= 400) => store' = store]_vars

\* a rename failed on the filter row, after the transaction had renamed the
\* document row and the version rows
RollbackWitness ==
    /\ resp = Failure("patch", 409)
    /\ DOMAIN store.filters = DocIds
    /\ Cardinality(DOMAIN store.diagrams) = 1
    /\ store.versions # {}

\* C7: after a successful patch that changes the id from old to new, get(new)
\* returns the document and get(old) fails NotFound; the versions listed under
\* old are listed under new, as far as the cap keeps them, and none remains
\* under old; the filter of old, if any, is the filter of new and old has none.
RenameCascade ==
    [][(Responded /\ resp'.op = "patch" /\ resp'.status = 200 /\ resp'.newId # resp'.id) =>
        LET old == resp'.id
            new == resp'.newId
            before == VersionsOf(store, old)
            \* one version is appended by the patch itself
            kept(v) == maxVersionsPerDiagram <= 0 \/
                       Cardinality({w \in before : w.id > v.id}) + 1 < maxVersionsPerDiagram
        IN  /\ getDiagramPayload(store', new).err = ""
            /\ getDiagramPayload(store', new).payload = resp'.body
            /\ resp'.body.id = Str(new)
            /\ getDiagramPayload(store', old).err = NoRows
            /\ listVersions(store', old) = <<>>
            /\ \A v \in before :
                   ([v EXCEPT !.diagram_id = new] \in VersionsOf(store', new)) <=> kept(v)
            /\ \A v \in before : getVersionPayload(store', old, v.id).err = NoRows
            /\ getDiagramFilter(store', old).err = NoRows
            /\ old \in DOMAIN store.filters =>
                   getDiagramFilter(store', new) = [err |-> "", payload |-> store.filters[old]]
    ]_vars

\* a rename has moved a create version and a filter to the new id
RenameCascadeWitness ==
    /\ resp.op = "patch" /\ resp.status = 200 /\ resp.newId # resp.id
    /\ resp.newId \in DOMAIN store.filters
    /\ \E v \in VersionsOf(store, resp.newId) : v.action = "create" /\ v.payload.id = Str(resp.id)

\* C8: a successful patch whose body has the one key updatedAt leaves the
\* version list unchanged; every other successful patch appends exactly one
\* version, with action = patch, under the id the document is left with.
TouchOnlyNotVersioned ==
    [][(Responded /\ resp'.op = "patch" /\ resp'.status = 200) =>
        IF DOMAIN resp'.patch = {"updatedAt"}
        THEN /\ store'.versions = store.versions
             /\ listVersions(store', resp'.id) = listVersions(store, resp'.id)
        ELSE LET added == {v \in store'.versions : v.id > store.seq}
             IN  /\ Cardinality(added) = 1
                 /\ \A v \in added : v.action = "patch" /\ v.diagram_id = resp'.newId
                 /\ \A v \in added : v.payload = resp'.body
                 /\ listVersions(store', resp'.newId)[1].action = "patch"
    ]_vars

\* an updatedAt-only patch has changed the document and not its versions
TouchOnlyWitness ==
    /\ resp.op = "patch" /\ resp.status = 200
    /\ DOMAIN resp.patch = {"updatedAt"}
    /\ store.diagrams[resp.id].payload.updatedAt = Str("u")
    /\ NewestOf(store, resp.id).payload.updatedAt # Str("u")

\* C9: after a successful restore(id, v) the newest version of id has action
\* restore; its payload, the document and the response are one payload, which
\* is the payload read from v but for id = the target id and updatedAt = now.
RestoreState ==
    (resp.op = "restore" /\ resp.status = 200) =>
        LET d == resp.id
            newest == listVersions(store, d)[1]
            p == resp.body
        IN  /\ newest.action = "restore"
            /\ newest.id = store.seq
            /\ getVersionPayload(store, d, newest.id) = [err |-> "", payload |-> p]
            /\ getDiagramPayload(store, d) = [err |-> "", payload |-> p]
            /\ DOMAIN p = DOMAIN resp.read
            /\ \A k \in DOMAIN p \ {"id", "updatedAt"} : p[k] = resp.read[k]
            /\ p.id = Str(d)
            /\ p.updatedAt = Ts(clock)

\* the payload the restore handler reads is that of the version asked for
RestoreReadsVersion ==
    [][\A d \in DocIds, n \in 1..MaxSeq :
          (HandleRestoreRead(d, n) /\ inflight' # inflight) =>
              \E v \in store.versions :
                  /\ v.id = n /\ v.diagram_id = d
                  /\ inflight' \ inflight = {[op |-> "restore", id |-> d, patch |-> <<>>,
                                              version |-> n, payload |-> v.payload]}
    ]_vars

RestoreResult == []RestoreState /\ RestoreReadsVersion

\* a version recorded under the old id was restored after a rename, and its
\* updatedAt was not the time of the restore
RestoreWitness ==
    /\ resp.op = "restore" /\ resp.status = 200
    /\ resp.read.id # Str(resp.id)
    /\ resp.read.updatedAt # Ts(clock)

\* C10: after delete(id) commits, get(id), getVersionPayload(id, v) for every
\* v and getFilter(id) fail NotFound and listVersions(id) is empty.
DeleteCascade ==
    (resp.op = "delete" /\ resp.status = 204) =>
        /\ getDiagramPayload(store, resp.id).err = NoRows
        /\ listVersions(store, resp.id) = <<>>
        /\ \A n \in 1..MaxSeq : getVersionPayload(store, resp.id, n).err = NoRows
        /\ getDiagramFilter(store, resp.id).err = NoRows

\* a delete has removed the only document, with the versions appended so far
DeleteCascadeWitness ==
    /\ resp.op = "delete" /\ resp.status = 204
    /\ store.seq >= 2
    /\ store.versions = {}
    /\ DOMAIN store.diagrams = {}

\* ------------------------------------------------ claims on the provider
Queued == {"mutate", "update", "delete"}

\* the table ids of a stored payload
StoredTables(payload) ==
    IF DOMAIN Field(payload, "tables") = {"arr"}
    THEN {payload.tables.arr[n] : n \in DOMAIN payload.tables.arr}
    ELSE {}

\* C1: when two addTable mutations of one id, the later made while the
\* earlier was pending, have both succeeded, the stored document holds the
\* table of each; this as long as the calls made for that id after the earlier
\* one are no updateDiagram or deleteDiagram, and no mutation but those made
\* while another was pending.
NoLostUpdate ==
    \A i, j \in DOMAIN calls :
        (/\ calls[i].kind = "mutate" /\ calls[j].kind = "mutate"
         /\ calls[i].id = calls[j].id
         /\ i \in calls[j].during
         /\ calls[i].pc = "ok" /\ calls[j].pc = "ok"
         /\ \A k \in DOMAIN calls :
                (k > i /\ calls[k].id = calls[i].id) =>
                    /\ calls[k].kind \notin {"update", "delete"}
                    /\ calls[k].kind = "mutate" => calls[k].during # {})
        => /\ calls[i].id \in DOMAIN store.diagrams
           /\ {calls[i].arg.table, calls[j].arg.table} \subseteq
                  StoredTables(store.diagrams[calls[i].id].payload)

\* C2: of two queued calls (mutateDiagram, updateDiagram, deleteDiagram) for
\* one id, the later made has not started before the earlier has settled; so
\* they start in the order made and never execute at the same time.
PerDocumentSerialization ==
    \A i, j \in DOMAIN calls :
        (/\ i < j
         /\ calls[i].kind \in Queued /\ calls[j].kind \in Queued
         /\ calls[i].id = calls[j].id
         /\ calls[j].pc # "waiting")
        => calls[i].pc \in Settled

\* C5: the diagram handed to the mutator of a mutation that was chained to a
\* successful mutation of the same id is the diagram that mutation saved,
\* whatever getDiagram and listDiagrams calls came in between.
ReadYourWrites ==
    \A i, j \in DOMAIN calls :
        (/\ calls[i].kind = "mutate" /\ calls[j].kind = "mutate"
         /\ calls[i].id = calls[j].id
         /\ calls[j].prev = i
         /\ calls[i].pc = "ok"
         /\ calls[j].handed # <<>>)
        => calls[j].handed = calls[i].saved

\* C6: a queued call fails only on the failed response to its own request;
\* in the step in which it fails the call chained to it starts, every other
\* call stays as it was, and the cache, the owner map, the queue and the
\* store are untouched.
FailureIsolation ==
    [][\A k \in DOMAIN calls :
          (calls[k].kind \in Queued /\ calls[k].pc \notin Settled /\ calls'[k].pc = "failed") =>
              /\ calls[k].pc \in {"fetched", "replied"}
              /\ Threw(k)
              /\ \A s \in DOMAIN calls \ {k} :
                     IF calls[s].prev = k /\ calls[s].pc = "waiting"
                     THEN calls'[s].pc \in {"fetching", "sending"}
                     ELSE calls'[s] = calls[s]
              /\ UNCHANGED <<cache, owners, mutationQueue, store>>
    ]_vars

\* a mutation whose PUT failed in the store has failed; the mutation chained
\* to it while it was pending has saved its table, and a queued call for
\* another id has succeeded
FailureIsolationWitness ==
    \E k, s, o \in DOMAIN calls :
        /\ calls[k].kind = "mutate" /\ calls[k].pc = "failed" /\ calls[k].handed # <<>>
        /\ calls[s].kind = "mutate" /\ calls[s].prev = k /\ k \in calls[s].during
        /\ calls[s].pc = "ok"
        /\ calls[s].arg.table \in TableIds(calls[s].saved)
        /\ calls[k].id \in DOMAIN store.diagrams
        /\ calls[k].arg.table \notin StoredTables(store.diagrams[calls[k].id].payload)
        /\ calls[o].kind \in Queued /\ calls[o].id # calls[k].id /\ calls[o].pc = "ok"

\* ------------------------------------------------- create, replace and patch
\* the key holds a string that is not blank after trimming
NonBlank(data, k) == asString(data, k).ok /\ TrimSpace(asString(data, k).v) # Str("")

RequiredKeys == {"id", "name", "databaseType"}

\* the handler has just answered: the step writes a response
CreateOf(b) == HandleCreate(b, 0) /\ (\A k \in RequiredKeys : NonBlank(b, k))

\* C11: a create of a payload whose id, name and databaseType are non-blank
\* strings and whose id is not stored succeeds; the document then read under
\* the id has every supplied key other than createdAt and updatedAt with the
\* supplied value, createdAt and updatedAt are non-empty strings, and the
\* document has exactly one version, of action create.
CreateGetRoundTrip ==
    [][\A b \in DiagramBodies :
          (CreateOf(b) /\ b.id.s \notin DOMAIN store.diagrams)
          => LET got == getDiagramPayload(store', b.id.s)
             IN  /\ resp'.status = 201
                 /\ got.err = ""
                 /\ \A k \in DOMAIN b \ {"createdAt", "updatedAt"} :
                        k \in DOMAIN got.payload /\ got.payload[k] = b[k]
                 /\ \A k \in {"createdAt", "updatedAt"} :
                        asString(got.payload, k).ok /\ got.payload[k] # Str("")
                 /\ Cardinality(VersionsOf(store', b.id.s)) = 1
                 /\ \A v \in VersionsOf(store', b.id.s) : v.action = "create"]_vars

\* C12: in every reachable state of the store, the payload of every stored
\* document has an id, a name and a databaseType that are strings and are not
\* blank after trimming.
RequiredFields ==
    \A d \in DOMAIN store.diagrams :
        \A k \in RequiredKeys : NonBlank(store.diagrams[d].payload, k)

\* a document that was created, then patched, then restored
RequiredFieldsWitness ==
    \E d \in DOMAIN store.diagrams :
        /\ \A k \in RequiredKeys : NonBlank(store.diagrams[d].payload, k)
        /\ \E v \in VersionsOf(store, d) : v.action = "patch"
        /\ \E v \in VersionsOf(store, d) : v.action = "restore"

\* C13: a create whose payload is valid and whose id is already stored is
\* answered 409, whatever storage failure is due later in the transaction, and
\* leaves every document, version and filter as it was.
CreateConflict ==
    [][\A b \in DiagramBodies, f \in Faults :
          (/\ HandleCreate(b, f)
           /\ \A k \in RequiredKeys : NonBlank(b, k)
           /\ b.id.s \in DOMAIN store.diagrams)
          => (resp'.status = 409 /\ store' = store)]_vars

\* a create has just been answered 409 while documents are stored
CreateConflictWitness ==
    /\ resp = Failure("create", 409)
    /\ store.diagrams # <<>>

\* C14: a replace whose valid payload has another id than the one addressed
\* is answered 400; one whose payload has the id addressed, for which no
\* document is stored, is answered 404; both leave the store as it was, no
\* replace adds a document, and a replace addressed to an id without a
\* document changes no record, so it appends no version.
ReplaceAddressing ==
    [][\A d \in DocIds, b \in DiagramBodies, f \in Faults :
          HandleReplace(d, b, f)
          => /\ DOMAIN store'.diagrams \subseteq DOMAIN store.diagrams
             /\ (\A k \in RequiredKeys : NonBlank(b, k)) /\ b.id.s # d
                => (resp'.status = 400 /\ store' = store)
             /\ (\A k \in RequiredKeys : NonBlank(b, k)) /\ b.id.s = d
                   /\ d \notin DOMAIN store.diagrams
                => (resp'.status = 404 /\ store' = store)
             /\ d \notin DOMAIN store.diagrams => store' = store]_vars

\* a replace has just been answered 404 while another document is stored
ReplaceAddressingWitness ==
    /\ resp = Failure("replace", 404)
    /\ store.diagrams # <<>>
    /\ DOMAIN store.diagrams # DocIds

\* C15: the transaction of a patch whose merged payload carries the id of
\* another stored document is answered 409, whatever storage failure is due
\* later in the transaction, and leaves every document, version and filter as
\* it was.
RenameConflict ==
    [][\A h \in inflight, f \in Faults :
          (/\ HandlePatchTx(h, f)
           /\ h.id \in DOMAIN store.diagrams
           /\ h.payload["id"].s # h.id
           /\ h.payload["id"].s \in DOMAIN store.diagrams)
          => (resp'.status = 409 /\ store' = store)]_vars

\* a patch has just been answered 409 while both documents are stored
RenameConflictWitness ==
    /\ resp = Failure("patch", 409)
    /\ DOMAIN store.diagrams = DocIds

\* the partial gives a required key a value other than null that is no string
\* or is blank: the merged payload is invalid however nulls are merged
GivesInvalid(p) ==
    \E k \in RequiredKeys \cap DOMAIN p : p[k] # Null /\ ~NonBlank(p, k)

\* C16: a patch of a stored document whose merged payload has a blank or
\* non-string id, name or databaseType is answered 400 and leaves the store
\* as it was.
PatchValidation ==
    [][\A d \in DocIds, p \in PatchBodies :
          (HandlePatchRead(d, p) /\ d \in DOMAIN store.diagrams /\ GivesInvalid(p))
          => (resp'.status = 400 /\ store' = store /\ inflight' = inflight)]_vars

\* the document is as the patch handler read it: merging the partial over the
\* stored payload gives the payload the handler holds
ReadStillCurrent(h) ==
    /\ h.id \in DOMAIN store.diagrams
    /\ normalizeDiagramPayload(
           mergePatch(store.diagrams[h.id].payload, h.patch, clock), clock).payload = h.payload

\* C17: after a patch answered 200 of a document not written since the
\* handler read it, the stored payload has, for every key the partial gives
\* with a value other than null, the partial's value, and for every other key
\* of the document the value it had before.
PatchMerge ==
    [][\A h \in inflight :
          (HandlePatchTx(h, 0) /\ resp'.status = 200 /\ ReadStillCurrent(h))
          => LET old == store.diagrams[h.id].payload
                 new == store'.diagrams[resp'.newId].payload
             IN  \A k \in DOMAIN old \cup DOMAIN h.patch :
                     IF k \in DOMAIN h.patch /\ h.patch[k] # Null
                     THEN k \in DOMAIN new /\ new[k] = h.patch[k]
                     ELSE k \in DOMAIN old => (k \in DOMAIN new /\ new[k] = old[k])]_vars

\* C18: a delete of an id under which no document is stored is answered 204
\* and changes no record of the store; and after any delete answered 204 a
\* second delete of the same id succeeds and changes nothing.
DeleteIdempotent ==
    [][\A d \in DocIds :
          HandleDelete(d, 0)
          => /\ resp'.status = 204
             /\ deleteDiagram(store', d, 0) = Ok(store')
             /\ d \notin DOMAIN store.diagrams => store' = store]_vars

\* version v is, in the committed store, a version of document d
Retained(d, v) == v \in {w.id : w \in VersionsOf(store, d)}

\* C19: whenever v is not a retained version of document d (it was never
\* assigned, was pruned or deleted, or belongs to another document), the
\* read of (d, v) finds no row, and a restore of (d, v) is answered 404,
\* changes no record and starts no transaction.
VersionLookup ==
    [][\A d \in DocIds, v \in 1..MaxSeq :
          ~Retained(d, v)
          => /\ getVersionPayload(store, d, v).err = NoRows
             /\ HandleRestoreRead(d, v)
                => /\ resp' = Failure("restore", 404)
                   /\ store' = store
                   /\ inflight' = inflight]_vars

\* a restore has just been answered 404 while both documents are stored, each
\* with versions of its own, and a version has been pruned
VersionLookupWitness ==
    /\ resp = Failure("restore", 404)
    /\ DOMAIN store.diagrams = DocIds
    /\ \A d \in DocIds : VersionsOf(store, d) # {}
    /\ Cardinality(store.versions) < store.seq

\* ------------------------------------------------------------ configuration
\* C20: the configuration read always has the key defaultDiagramId, with the
\* empty string while nothing was written; and when a setConfig completes,
\* the configuration then read has for every key the call supplied the
\* supplied value, and for every other key the value read just before, so no
\* key is dropped, whether or not other setConfig calls overlap it.
ConfigPartialUpdate ==
    [][/\ "defaultDiagramId" \in DOMAIN getConfig(store)
       /\ store.settings = <<>> => getConfig(store)["defaultDiagramId"] = Str("")
       /\ \A h \in inflight :
             HandleSetConfigWrite(h, 0)
             => LET before == getConfig(store)
                    after == getConfig(store')
                IN  \A k \in DOMAIN before \cup DOMAIN h.patch :
                        /\ k \in DOMAIN after
                        /\ after[k] = IF k \in DOMAIN h.patch THEN h.patch[k]
                                      ELSE before[k]]_vars

\* -------------------------------------------------------------- the ledger
\* the step leaves the versions of document a under the id d
Moved(a, d) ==
    \/ d = a
    \/ resp'.op = "patch" /\ resp'.status = 200 /\ resp'.id = a /\ resp'.newId = d

\* C27: a version disappears only in the delete of its document or, under a
\* cap N > 0, when N newer versions of its document are retained; the version
\* a successful write appends is retained; and a step that appends a version
\* leaves the document, under the id it then has, with one version more than
\* before, but with N when that would exceed the cap.
\* So the retained versions are the min(N, appended) newest, or all when the
\* cap is 0 or less.
PruneOldestOnly ==
    [][/\ \A v \in store.versions :
              (~\E w \in store'.versions : w.id = v.id)
              => \/ resp'.op = "delete" /\ resp'.status = 204 /\ resp'.id = v.diagram_id
                 \/ /\ maxVersionsPerDiagram > 0
                    /\ \E d \in DocIds :
                           /\ Moved(v.diagram_id, d)
                           /\ Cardinality({w \in VersionsOf(store', d) : w.id > v.id})
                                  = maxVersionsPerDiagram
       /\ (/\ Responded /\ resp'.status \in {200, 201}
           /\ \/ resp'.op \in {"create", "replace", "restore"}
              \/ resp'.op = "patch" /\ DOMAIN resp'.patch # {"updatedAt"})
          => \E v \in store'.versions : v.id = store.seq + 1 /\ v.diagram_id \in DOMAIN store'.diagrams
       /\ \A v \in store'.versions :
              v.id > store.seq
              => LET from == IF resp'.op = "patch" THEN resp'.id ELSE v.diagram_id
                     more == Cardinality(VersionsOf(store, from)) + 1
                 IN  Cardinality(VersionsOf(store', v.diagram_id)) =
                         IF maxVersionsPerDiagram > 0 /\ more > maxVersionsPerDiagram
                         THEN maxVersionsPerDiagram ELSE more]_vars

\* under a cap the oldest version of a document is gone and the newest are
\* retained
PruneOldestOnlyWitness ==
    /\ maxVersionsPerDiagram > 0
    /\ store.seq > maxVersionsPerDiagram
    /\ \E d \in DOMAIN store.diagrams :
           {v.id : v \in VersionsOf(store, d)} =
               (store.seq - maxVersionsPerDiagram + 1)..store.seq

\* C28: the id of every version a step appends is larger than every id the
\* ledger assigned before, whatever was pruned or deleted since; and
\* listVersions lists the retained versions of a document, each once, by
\* descending id, which is newest appended first.
VersionIdsAppendOrder ==
    [][/\ \A v \in store.versions : v.id <= store.seq
       /\ store'.seq >= store.seq
       /\ \A v \in store'.versions :
              (~\E w \in store.versions : w.id = v.id) => v.id > store.seq
       /\ \A v, w \in store'.versions : v.id = w.id => v = w
       /\ \A d \in DocIds :
              LET l == listVersions(store', d)
              IN  /\ {l[i].id : i \in DOMAIN l} = {v.id : v \in VersionsOf(store', d)}
                  /\ \A i, j \in DOMAIN l : i < j => l[i].id > l[j].id]_vars

\* the ledger holds one version, whose id is not the first: the ids of the
\* versions pruned or deleted before it were not assigned again
VersionIdsWitness ==
    /\ store.seq > 1
    /\ \E d \in DOMAIN store.diagrams :
           /\ store.versions = VersionsOf(store, d)
           /\ {v.id : v \in store.versions} = {store.seq}

\* C29: a version that a step retains keeps its name, action, payload and
\* createdAt; its document id changes only in a successful patch that renames
\* its document, and then to the new id of that document, the payload with
\* the id inside it staying as it was.
VersionsImmutable ==
    [][\A v \in store.versions, w \in store'.versions :
          w.id = v.id
          => /\ w.name = v.name
             /\ w.action = v.action
             /\ w.payload = v.payload
             /\ w.created_at = v.created_at
             /\ w.diagram_id # v.diagram_id
                => /\ resp'.op = "patch" /\ resp'.status = 200
                   /\ resp'.id = v.diagram_id
                   /\ resp'.newId = w.diagram_id]_vars

\* a version stands under another id than the one in its payload, after the
\* document was renamed and written again
VersionsImmutableWitness ==
    \E v \in store.versions :
        /\ v.payload["id"] # Str(v.diagram_id)
        /\ v.id < store.seq
        /\ resp.op # "patch"

\* ---------------------------------------------- the cache and the owner map
\* the tables of a stored payload, in their order
StoredTableSeq(payload) ==
    IF DOMAIN Field(payload, "tables") = {"arr"} THEN payload.tables.arr ELSE <<>>

\* C21: the PUT by which addTable persists its table leaves the stored
\* document with the tables it had and the new one after them, and with every
\* other top-level key as it was.
EntityHelperFrame ==
    [][\A k \in DOMAIN calls :
          (ServePut(k, 0) /\ calls'[k].msg.status = 200)
          => LET before == store.diagrams[calls[k].id].payload
                 after == store'.diagrams[calls[k].id].payload
             IN  /\ StoredTableSeq(after) = StoredTableSeq(before) \o <<calls[k].arg.table>>
                 /\ \A key \in DOMAIN before \ {"tables"} :
                        key \in DOMAIN after /\ after[key] = before[key]]_vars

\* the full documents in the responses the provider is about to take: of a
\* GET, PUT, PATCH or POST of one diagram, or of the full listing
FullBodies ==
    {calls[k].msg.body :
        k \in {i \in DOMAIN calls :
                  /\ calls[i].pc \in {"fetched", "replied"}
                  /\ calls[i].kind \in {"get", "mutate", "update", "add"}
                  /\ ~Threw(i)}}
    \cup UNION {{calls[k].msg.body[n] : n \in DOMAIN calls[k].msg.body} :
                  k \in {i \in DOMAIN calls :
                            calls[i].pc = "replied"
                            /\ calls[i].kind \in {"listFull", "resolve"}}}

\* C22: whenever a step sets the cache entry of an id, the tables of the new
\* entry are those of a full document for that id in a response of the store,
\* or those of the entry it replaces; no step caches a document that comes
\* from a summary.
CacheFullOnly ==
    [][\A d \in DOMAIN cache' :
          (d \notin DOMAIN cache \/ cache'[d] # cache[d])
          => \/ d \in DOMAIN cache /\ cache'[d].tables = cache[d].tables
             \/ \E b \in FullBodies :
                    /\ toDiagram(b, clock).id = d
                    /\ toDiagram(b, clock).tables = cache'[d].tables]_vars

\* C25: the queue map has an entry for an id only while a queued call
\* (mutateDiagram, updateDiagram, deleteDiagram) for that id is pending.
NoIdleQueue ==
    \A d \in DOMAIN mutationQueue :
        \E k \in Pending(calls) : calls[k].kind \in Queued /\ calls[k].id = d

\* C30: every entry of the owner map leads to a cached diagram, and that
\* diagram has a table of the entry's id.
OwnerIndexSound ==
    \A t \in DOMAIN owners :
        /\ owners[t] \in DOMAIN cache
        /\ t \in TableIds(cache[owners[t]])

\* a cached diagram was deleted and another replaced by a document with other
\* tables, and the owner map leads to the tables cached now
OwnerIndexSoundWitness ==
    /\ \E k \in DOMAIN calls : calls[k].kind = "delete" /\ calls[k].pc = "ok"
    /\ \E k \in DOMAIN calls : calls[k].kind = "mutate" /\ calls[k].pc = "ok"
    /\ owners # <<>>
    /\ \E t \in 0..MaxCalls : t \notin DOMAIN owners /\ \E k \in DOMAIN calls :
           calls[k].saved # <<>> /\ t \in TableIds(calls[k].saved)

\* C24: once deleteDiagram(id) has settled successfully, with no other calls
\* than reads made before it, the cache has no entry for id, no owner entry
\* leads to id and the queue has no entry for id.
Reads == {"get", "list", "listFull"}

DeleteClears ==
    \A k \in DOMAIN calls :
        (/\ calls[k].kind = "delete" /\ calls[k].pc = "ok"
         /\ \A j \in DOMAIN calls \ {k} : j < k /\ calls[j].kind \in Reads)
        => /\ calls[k].id \notin DOMAIN cache
           /\ \A t \in DOMAIN owners : owners[t] # calls[k].id
           /\ calls[k].id \notin DOMAIN mutationQueue

\* C23: the diagram a mutator edits is a copy of the cached one: in the step
\* in which the mutator of a mutateDiagram call runs, the table it adds gets
\* into neither the cache entry nor the owner map, and the diagram handed to it
\* is a clone of the entry; in the step in which the PUT of the call fails, the
\* cache and the owner map stay as they are.
MutatorRan(k) ==
    /\ calls'[k].kind = "mutate" /\ calls'[k].pc = "sending"
    /\ k \in DOMAIN calls => calls[k].pc # "sending"

FetchReturnsCopy ==
    [][\A k \in DOMAIN calls' :
          /\ MutatorRan(k) =>
               /\ calls'[k].id \in DOMAIN cache'
               /\ calls'[k].handed = cloneDiagram(cache'[calls'[k].id], clock)
               /\ calls'[k].arg.table \notin TableIds(cache'[calls'[k].id])
               /\ calls'[k].arg.table \notin DOMAIN owners'
          /\ (/\ k \in DOMAIN calls
              /\ calls[k].kind = "mutate" /\ calls[k].pc = "replied"
              /\ calls'[k].pc = "failed") =>
               /\ cache' = cache
               /\ owners' = owners]_vars

\* the PUT of a mutateDiagram call has failed after its mutator edited the
\* diagram fetched by its own GET; the cache entry and the owner map are
\* without the table
FetchReturnsCopyWitness ==
    \E k \in DOMAIN calls :
        /\ calls[k].kind = "mutate" /\ calls[k].pc = "failed"
        /\ calls[k].handed # <<>>
        /\ calls[k].id \in DOMAIN cache
        /\ TableIds(cache[calls[k].id]) = TableIds(calls[k].handed)
        /\ calls[k].arg.table \notin DOMAIN owners
        /\ owners # <<>>

\* the stored diagrams with the table t
OwnersInStore(t) ==
    {d \in DOMAIN store.diagrams : t \in StoredTables(store.diagrams[d].payload)}

\* the diagrams of a full list with the table t
OwnersInList(raw, t) ==
    {raw[i].id.s : i \in {j \in DOMAIN raw : t \in StoredTables(raw[j])}}

\* C26: resolveDiagramIdByEntity, called while no other call is pending and
\* answered at once (from the owner map or the cached diagrams), answers with
\* a stored diagram that has the entity; the full list it asks for otherwise
\* has every stored diagram with the entity, it fails only when the list has
\* none and answers with a listed diagram that has the entity otherwise.
ResolveOwner ==
    [][\A k \in DOMAIN calls' :
          calls'[k].kind = "resolve" =>
            /\ (k \notin DOMAIN calls /\ Pending(calls) = {} /\ calls'[k].pc = "ok")
                   => calls'[k].id \in OwnersInStore(calls'[k].arg.entity)
            /\ (k \in DOMAIN calls /\ calls[k].pc = "sending" /\ calls'[k].pc = "replied")
                   => OwnersInList(calls'[k].msg.body, calls[k].arg.entity)
                          = OwnersInStore(calls[k].arg.entity)
            /\ (k \in DOMAIN calls /\ calls[k].pc = "replied" /\ calls'[k].pc = "failed")
                   => OwnersInList(calls[k].msg.body, calls[k].arg.entity) = {}
            /\ (k \in DOMAIN calls /\ calls[k].pc = "replied" /\ calls'[k].pc = "ok")
                   => calls'[k].id \in OwnersInList(calls[k].msg.body, calls[k].arg.entity)]_vars

\* ------------------------------------------------ filters, summaries, frames
\* C36: every filter row is stored under the id of a stored diagram.
FilterIntegrity == DOMAIN store.filters \subseteq DOMAIN store.diagrams

\* the id a patch in flight leaves its diagram under
TargetOf(h) ==
    LET meta == normalizeDiagramPayload(h.payload, clock).meta
    IN  IF meta.ID = "" THEN h.id ELSE meta.ID

\* C37: the transaction of a patch that renames a stored diagram to an id no
\* diagram is stored under does not answer 409, and when it answers 200 the
\* filter under the new id is the one the diagram had under the old id, or
\* there is none when it had none.
RenameToFreeId ==
    [][\A h \in inflight \ inflight' :
          (/\ h.op = "patch"
           /\ h.id \in DOMAIN store.diagrams
           /\ TargetOf(h) # h.id
           /\ TargetOf(h) \notin DOMAIN store.diagrams)
          => /\ resp'.status # 409
             /\ resp'.status = 200 =>
                  IF h.id \in DOMAIN store.filters
                  THEN /\ TargetOf(h) \in DOMAIN store'.filters
                       /\ store'.filters[TargetOf(h)] = store.filters[h.id]
                  ELSE TargetOf(h) \notin DOMAIN store'.filters]_vars

\* C35: every stored diagram has a retained version, and the payload of the
\* newest of them is the payload of the diagram, up to the key updatedAt.
CurrentIsNewest ==
    \A d \in DOMAIN store.diagrams :
        /\ VersionsOf(store, d) # {}
        /\ LET cur == store.diagrams[d].payload
               new == NewestOf(store, d).payload
           IN  /\ DOMAIN cur = DOMAIN new
               /\ \A k \in DOMAIN cur \ {"updatedAt"} : cur[k] = new[k]

\* C34: the payload a successful patch writes is the merge of its body over
\* the payload the diagram has when the patch transaction runs.
PatchAtomic ==
    [][\A h \in inflight \ inflight' :
          (h.op = "patch" /\ resp'.status = 200)
          => /\ h.id \in DOMAIN store.diagrams
             /\ resp'.body =
                    normalizeDiagramPayload(
                        mergePatch(store.diagrams[h.id].payload, h.patch, clock), clock).payload
             /\ store'.diagrams[resp'.newId].payload = resp'.body]_vars

\* C38: for every stored diagram the summary listDiagramMetas gives agrees
\* with the stored payload in id, name, databaseType, databaseEdition,
\* createdAt and updatedAt, and the id in the payload is the id of the row.
SummaryAgrees ==
    \A d \in DOMAIN store.diagrams :
        LET summary == metaJSON(store.diagrams[d])
            payload == store.diagrams[d].payload
        IN  /\ "id" \in DOMAIN payload /\ payload.id = Str(d)
            /\ \A k \in {"id", "name", "databaseType", "createdAt", "updatedAt"} :
                   k \in DOMAIN payload /\ summary[k] = payload[k]
            /\ ("databaseEdition" \in DOMAIN summary \/ "databaseEdition" \in DOMAIN payload)
                   => /\ "databaseEdition" \in DOMAIN summary
                      /\ "databaseEdition" \in DOMAIN payload
                      /\ summary.databaseEdition = payload.databaseEdition

\* the ids a response says its handler wrote under: the id addressed and, for
\* a patch, the id the diagram was left under; none for a failure
Addressed ==
    IF resp'.status \in {200, 201, 204} THEN {resp'.id, resp'.newId} ELSE {}

\* the diagram row, the version rows and the filter row stored under an id
RowsOf(db, e) ==
    [diagram |-> IF e \in DOMAIN db.diagrams THEN <<db.diagrams[e]>> ELSE <<>>,
     versions |-> VersionsOf(db, e),
     filter |-> IF e \in DOMAIN db.filters THEN <<db.filters[e]>> ELSE <<>>]

\* C39: a create, replace, patch, restore or delete leaves the diagram row,
\* the version rows and the filter row under every id it is not addressed to
\* as they were.
WritesConfined ==
    [][(Responded /\ resp'.op \in {"create", "replace", "patch", "restore", "delete"})
          => \A e \in DocIds \ Addressed : RowsOf(store', e) = RowsOf(store, e)]_vars

\* a replace of d1 has pruned the versions of d1 while d2 is stored with a
\* version and a filter
WritesConfinedWitness ==
    /\ resp.op = "replace" /\ resp.status = 200 /\ resp.id = "d1"
    /\ "d2" \in DOMAIN store.diagrams
    /\ "d2" \in DOMAIN store.filters
    /\ VersionsOf(store, "d2") # {}
    /\ Cardinality(VersionsOf(store, "d1")) = SmallCap
    /\ store.seq > Cardinality(store.versions)

\* ---------------------------------------------- the lookup and stale responses
\* C31: when resolveDiagramIdByEntity settles after its request for the full
\* list, every diagram of the list is the cache entry of its id and each of its
\* tables has an entry in the owner map that leads to a listed diagram with
\* that table.
ListingRebuildsCache ==
    [][\A k \in DOMAIN calls :
          (/\ calls[k].kind = "resolve" /\ calls[k].pc = "replied"
           /\ calls'[k].pc \in Settled
           /\ ~Threw(k))
          => \A i \in DOMAIN calls[k].msg.body :
                 LET diagram == toDiagram(calls[k].msg.body[i], clock)
                 IN  /\ diagram.id \in DOMAIN cache'
                     /\ cache'[diagram.id] = diagram
                     /\ \A t \in TableIds(diagram) :
                            /\ t \in DOMAIN owners'
                            /\ owners'[t] \in OwnersInList(calls[k].msg.body, t)]_vars

\* C32: the response of a read made outside the queue (getDiagram,
\* listDiagrams, the full list of resolveDiagramIdByEntity) does not take a
\* table out of a cache entry that a successful addTable has persisted and
\* cached and that the stored diagram still has.
CacheNeverBackwards ==
    [][\A k \in DOMAIN calls :
          (/\ calls[k].kind \in Reads \cup {"resolve"}
           /\ calls[k].pc \in {"fetched", "replied"}
           /\ calls'[k].pc \in Settled)
          => \A m \in DOMAIN calls :
                 (/\ calls[m].kind = "mutate" /\ calls[m].pc = "ok"
                  /\ calls[m].id \in DOMAIN cache
                  /\ calls[m].arg.table \in TableIds(cache[calls[m].id])
                  /\ calls[m].id \in DOMAIN store.diagrams
                  /\ calls[m].arg.table \in StoredTables(store.diagrams[calls[m].id].payload))
                 => /\ calls[m].id \in DOMAIN cache'
                    /\ calls[m].arg.table \in TableIds(cache'[calls[m].id])]_vars

\* C33: the document an addTable call sends, when it is called and starts at
\* once from the cache, has every table the stored diagram has at that time,
\* those written by the other provider included.
MutateFromCurrent ==
    [][\A k \in DOMAIN calls' \ DOMAIN calls :
          (/\ calls'[k].kind = "mutate" /\ calls'[k].pc = "sending"
           /\ calls'[k].id \in DOMAIN store.diagrams)
          => StoredTables(store.diagrams[calls'[k].id].payload)
                 \subseteq StoredTables(calls'[k].msg)]_vars

\* ------------------------------------------------------------------ progress
\* the pcs of a call whose operation has started and has not settled
Running == {"fetching", "fetched", "sending", "patching", "replied"}

\* where call k stands; "none" before it is made
PcOf(k) == IF k \in DOMAIN calls THEN calls[k].pc ELSE "none"

\* call k is a queued call for the id whose requests are answered
QueuedForAnswered(k) ==
    k \in DOMAIN calls /\ calls[k].kind \in Queued /\ calls[k].id = Answered

\* C40: every queued call for the id whose requests are answered eventually
\* starts and eventually settles, whatever is pending for the other id.
QueueProgress ==
    \A k \in 1..MaxCalls :
        /\ (QueuedForAnswered(k) /\ PcOf(k) = "waiting") ~> (PcOf(k) \in Running)
        /\ QueuedForAnswered(k) ~> (PcOf(k) \in Settled)

\* a call for the answered id that waited for its predecessor has settled
\* while a call for the other id is still without an answer
QueueProgressWitness ==
    \E k, j \in DOMAIN calls :
        /\ calls[k].id = Answered /\ calls[k].prev # 0 /\ calls[k].pc \in Settled
        /\ calls[k].kind \in Queued
        /\ calls[j].id # Answered /\ calls[j].pc \in Running

====
